---- MODULE Spec2Model ----
(***************************************************************************)
(* Model of the ECS World (world.ts), its storage primitives (SparseSet,   *)
(* AutoMap, TagSet) and the Relationship component (relationship.ts).      *)
(*                                                                         *)
(* JavaScript objects are modelled as records, arrays as sequences (the    *)
(* indices stored in SparseSet.sparse stay 0-based as in the source), Sets *)
(* as duplicate-free sequences in insertion order.  Relationship objects   *)
(* are mutable and aliased, so they live in a heap and the component store *)
(* holds references to them.                                               *)
(***************************************************************************)
EXTENDS Integers, Sequences, FiniteSets, TLC

VARIABLES
    world,      \* the private fields of the World object
    heap,       \* the Relationship objects, by reference
    lastCall,   \* the World method the driver called last, with its arguments
    ret,        \* what that call returned
    outcome,    \* how that call ended: it returned, threw, or never ends
    trace,      \* the observer callbacks that call fired, in order
    sets,       \* two SparseSet objects, one per implementation in the source,
                \* driven by the same calls, and what those calls amount to
    events,     \* an EventQueue object (q) and the record of the pushes made
                \* to it and of the listener calls it made (log)
    lifecycle,  \* the systems of a World, its active flag, and the record of
                \* the hooks and callbacks the lifecycle calls invoked (log)
    pool,       \* an ObjectPool object, and what its last call returned
    iterators   \* the componentIterator generators the driver holds, each
                \* with the copies the driver took of the tuples it yielded

worldVars == <<world, heap, ret, outcome, trace>>

vars == <<world, heap, lastCall, ret, outcome, trace, sets, events, lifecycle, pool,
          iterators>>

----------------------------------------------------------------------------
(* Bounds *)

\* the driver of components stops calling createEntity once MaxEntities ids
\* are allocated (the singleton entity 0 included)
MaxEntities == 2

\* the driver of hierarchies stops calling createEntity once MaxHierarchy ids
\* are allocated (the singleton entity 0 included)
MaxHierarchy == 3

\* frames available to the recursion of removeEntity before the engine
\* throws a RangeError; every recursion that ends in a World of this driver
\* needs fewer (the deepest takes MaxHierarchy + 2)
MaxStack == 2 * (MaxHierarchy + 1)

\* the driver of a bare SparseSet passes the ids 0..MaxIds
MaxIds == 2

\* the driver of an EventQueue stops pushing after MaxPushes events of its
\* own, stops dispatching after MaxDispatches dispatchQueue calls and stops
\* clearing after MaxClears clear calls
MaxPushes == 2
MaxDispatches == 3
MaxClears == 3
MaxResubscriptions == 2

\* System objects constructed, and calls made to a World and its Systems
MaxSystems == 2
MaxCalls == 6

\* the driver of the queries creates entities up to this id, enough for a
\* store to hold more entities than a tuple has elements
MaxQueried == 3

\* the generators the driver holds at a time: two, so that one query runs
\* inside the loop over another
MaxIterators == 2

\* the largest initialSize a pool is constructed with, and the calls made on
\* a pool
MaxInitialSize == 2
MaxPoolCalls == 5

----------------------------------------------------------------------------
(* Component types, instances and tags *)

\* a class (constructor function) is the record [class |-> its name]; an
\* instance is [ctor |-> its class, id |-> which instance]
Relationship == [class |-> "Relationship"]

\* two user component classes: A declares a single tag, B an array of tags
A == [class |-> "A"]
B == [class |-> "B"]
UserTypes == {A, B}

ComponentTypes == {Relationship} \cup UserTypes

Tags == {"T1", "T2"}

\* functions.ts make(): a class given instead of an instance is instantiated
\* with no arguments
make(ctor) == [ctor |-> ctor, id |-> 0]

\* the instances the driver passes to addComponent besides bare constructors
UserInstances == {[ctor |-> A, id |-> 1]}

\* functions.ts constructorOf()
constructorOf(component) == component.ctor

\* checks.ts isConstructor()
isConstructor(value) == "class" \in DOMAIN value

\* tags.ts tagsOf(): the static ecsTags of the class, as the list of tags the
\* callers walk (a single tag is walked as a list of one)
tagsOf(component) ==
    LET ctor == IF isConstructor(component) THEN component ELSE constructorOf(component)
    IN  CASE ctor = A -> <<"T1">>
          [] ctor = B -> <<"T1", "T2">>
          [] OTHER -> <<>>

\* undefined and null where a component is expected
undefined == [ctor |-> [class |-> "undefined"], id |-> 0]
null == [ctor |-> [class |-> "null"], id |-> 0]

\* what a call returns: the error singleton of entity.ts / relationship.ts it
\* returns, if any, and the value otherwise
returnsUndefined == [error |-> "none", value |-> undefined]
returnsValue(v) == [error |-> "none", value |-> v]
entityDoesNotExistError == [error |-> "EntityDoesNotExist", value |-> undefined]
circularRelationshipError == [error |-> "CircularRelationship", value |-> undefined]

Range(s) == {s[i] : i \in DOMAIN s}

SeqRemove(s, x) == SelectSeq(s, LAMBDA y : y # x)

SetAdd(s, x) == IF x \in Range(s) THEN s ELSE Append(s, x)

----------------------------------------------------------------------------
(* SparseSet (swap-and-pop implementation, the one sparseset.test.ts passes) *)

SparseSetNew == [sparse |-> <<>>, dense |-> <<>>, components |-> <<>>]

SparseSetSize(s) == Len(s.dense)

SparseSetHas(s, entity) == entity \in DOMAIN s.sparse

SparseSetGet(s, entity) ==
    IF ~SparseSetHas(s, entity) THEN undefined
    ELSE s.components[s.sparse[entity] + 1]

SparseSetAdd(s, entity, component) ==
    IF SparseSetHas(s, entity) THEN s
    ELSE [sparse     |-> (entity :> Len(s.dense)) @@ s.sparse,
          dense      |-> Append(s.dense, entity),
          components |-> Append(s.components, component)]

\* SparseSetRemove with the swap moving the last entity into the freed slot
\* but not its component
SparseSetRemoveStaleComponent(s, entity) ==
    IF ~SparseSetHas(s, entity) THEN s
    ELSE
        LET indexToRemove == s.sparse[entity]
            lastIndex     == Len(s.dense) - 1
            lastEntity    == s.dense[lastIndex + 1]
            swapped ==
                IF indexToRemove # lastIndex
                THEN [sparse     |-> [s.sparse EXCEPT ![lastEntity] = indexToRemove],
                      dense      |-> [s.dense EXCEPT ![indexToRemove + 1] = lastEntity],
                      components |-> s.components]
                ELSE s
            popped ==
                [sparse     |-> [e \in DOMAIN swapped.sparse \ {entity} |-> swapped.sparse[e]],
                 dense      |-> SubSeq(swapped.dense, 1, lastIndex),
                 components |-> SubSeq(swapped.components, 1, lastIndex)]
        IN  IF Len(popped.dense) = 0
            THEN [popped EXCEPT !.sparse = <<>>]
            ELSE popped

SparseSetRemove(s, entity) ==
    IF ~SparseSetHas(s, entity) THEN s
    ELSE
        LET indexToRemove == s.sparse[entity]
            lastIndex     == Len(s.dense) - 1
            lastEntity    == s.dense[lastIndex + 1]
            swapped ==
                IF indexToRemove # lastIndex
                THEN [sparse     |-> [s.sparse EXCEPT ![lastEntity] = indexToRemove],
                      dense      |-> [s.dense EXCEPT ![indexToRemove + 1] = lastEntity],
                      components |-> [s.components EXCEPT
                                         ![indexToRemove + 1] = s.components[lastIndex + 1]]]
                ELSE s
            popped ==
                [sparse     |-> [e \in DOMAIN swapped.sparse \ {entity} |-> swapped.sparse[e]],
                 dense      |-> SubSeq(swapped.dense, 1, lastIndex),
                 components |-> SubSeq(swapped.components, 1, lastIndex)]
        IN  IF Len(popped.dense) = 0
            THEN [popped EXCEPT !.sparse = <<>>]
            ELSE popped

\* SparseSet.clear(): dense and components are cut to length 0 and sparse is
\* a new empty array
SparseSetClear(s) == [sparse |-> <<>>, dense |-> SubSeq(s.dense, 1, 0),
                      components |-> SubSeq(s.components, 1, 0)]

\* SparseSet[Symbol.iterator]: the [entity, component] pairs in dense order
SparseSetIter(s) == [i \in 1..Len(s.dense) |-> <<s.dense[i], s.components[i]>>]

----------------------------------------------------------------------------
(* SparseSet (delete-then-pop implementation).  Its fields, add, get, has *)
(* and size are those of the swap-and-pop implementation; remove differs. *)

\* what reading a deleted array slot gives: dense holds entity ids, so its
\* hole is written -1; a hole of components is undefined
hole == -1

\* delete array[index], index 0-based: the slot becomes a hole, the length
\* stays
deleteIndex(array, index, empty) == [array EXCEPT ![index + 1] = empty]

\* array.pop(): the array without its last slot
pop(array) == SubSeq(array, 1, Len(array) - 1)

SparseSetRemoveDeletePop(s, entity) ==
    IF ~SparseSetHas(s, entity) THEN s
    ELSE
        LET index == s.sparse[entity]
            sparse == [e \in DOMAIN s.sparse \ {entity} |-> s.sparse[e]]
            components == deleteIndex(s.components, index, undefined)
            dense == deleteIndex(s.dense, index, hole)
            lastDenseItem == dense[Len(dense)]
            lastComponentItem == components[Len(components)]
        IN  IF lastDenseItem # hole
            THEN [sparse     |-> (lastDenseItem :> index) @@ sparse,
                  dense      |-> [pop(dense) EXCEPT ![index + 1] = lastDenseItem],
                  components |-> [pop(components) EXCEPT ![index + 1] = lastComponentItem]]
            ELSE SparseSetNew

----------------------------------------------------------------------------
(* AutoMap: a Map (insertion-ordered keys) whose get() inserts a default *)

AutoMapNew == [keys |-> <<>>, val |-> <<>>]

AutoMapHas(m, key) == key \in DOMAIN m.val

\* the map after get(key): the factory's value is inserted for an absent key
AutoMapGet(m, key, default) ==
    IF AutoMapHas(m, key) THEN m
    ELSE [keys |-> Append(m.keys, key), val |-> (key :> default) @@ m.val]

AutoMapSet(m, key, value) ==
    IF AutoMapHas(m, key) THEN [m EXCEPT !.val[key] = value]
    ELSE [keys |-> Append(m.keys, key), val |-> (key :> value) @@ m.val]

----------------------------------------------------------------------------
(* TagSet: one AutoMap from component class to SparseSet *)

TagSetNew == AutoMapNew

TagSetAdd(ts, entity, component) ==
    LET m == AutoMapGet(ts, constructorOf(component), SparseSetNew)
    IN  AutoMapSet(m, constructorOf(component),
                   SparseSetAdd(m.val[constructorOf(component)], entity, component))

\* TagSet.remove that leaves the entry in place
TagSetRemoveNothing(ts, entity, componentConstructor) ==
    AutoMapGet(ts, componentConstructor, SparseSetNew)

TagSetRemove(ts, entity, componentConstructor) ==
    LET m == AutoMapGet(ts, componentConstructor, SparseSetNew)
    IN  AutoMapSet(m, componentConstructor,
                   SparseSetRemove(m.val[componentConstructor], entity))

----------------------------------------------------------------------------
(* World: queries.  A machine state st is the record                      *)
(* [world, heap, trace, ret, outcome] the operators thread through calls. *)

\* the state after this.#componentMap.get(ctor): an absent store is created
touchStore(st, ctor) ==
    [st EXCEPT !.world.componentMap = AutoMapGet(@, ctor, SparseSetNew)]

\* the SparseSet this.#componentMap.get(ctor) returns
componentStore(st, ctor) ==
    AutoMapGet(st.world.componentMap, ctor, SparseSetNew).val[ctor]

setStore(st, ctor, s) ==
    [st EXCEPT !.world.componentMap = AutoMapSet(@, ctor, s)]

\* the TagSet this.#tagSet.get(tag) returns
tagStore(st, tag) == AutoMapGet(st.world.tagSet, tag, TagSetNew).val[tag]

entityExists(st, entity) == entity \in st.world.entities

hasComponent(st, entity, component) ==
    SparseSetHas(componentStore(st, component), entity)

getComponent(st, entity, componentConstructor) ==
    LET v == SparseSetGet(componentStore(st, componentConstructor), entity)
    IN  IF v = undefined THEN null ELSE v

\* TagSet.get(entity, ctor) on this.#tagSet.get(tag)
tagSetGet(st, tag, entity, componentConstructor) ==
    SparseSetGet(AutoMapGet(tagStore(st, tag), componentConstructor, SparseSetNew)
                     .val[componentConstructor], entity)

\* An EntityID | null field holds <<>> for null and <<id>> for an id.
\* JavaScript truthiness of such a value: null and the id 0 are falsy
truthy(entityOrNull) == entityOrNull # <<>> /\ entityOrNull[1] # 0

----------------------------------------------------------------------------
(* World: observer callbacks *)

\* the callbacks of one registry run last registered first
fireReversed(st, callbacks, kind, entity, arg) ==
    [st EXCEPT !.trace = @ \o
        [i \in 1..Len(callbacks) |->
            [cb |-> kind, fn |-> callbacks[Len(callbacks) + 1 - i],
             entity |-> entity, arg |-> arg,
             entities |-> st.world.entities]]]

\* a component-added callback that takes the component away again:
\* (world, entity, component) => world.removeComponent(entity, constructorOf(component))
Retractor == 7

\* one callback is called: it notes what it was called with and which
\* entities are live then; the Retractor goes on to call removeComponent
RECURSIVE removeComponent(_, _, _)
invoke(st, callback, kind, entity, arg) ==
    IF callback = Retractor
    THEN removeComponent(
             [st EXCEPT !.trace = Append(@,
                 [cb |-> kind, fn |-> callback, entity |-> entity, arg |-> arg,
                  entities |-> st.world.entities])],
             entity, constructorOf(arg))
    ELSE [st EXCEPT !.trace = Append(@,
             [cb |-> kind, fn |-> callback, entity |-> entity, arg |-> arg,
              entities |-> st.world.entities])]

\* for (const callback of callbacks) callback(this, entity, arg), one
\* callback after the other
RECURSIVE fireEach(_, _, _, _, _, _)
fireEach(st, callbacks, i, kind, entity, arg) ==
    IF i > Len(callbacks) THEN st
    ELSE fireEach(invoke(st, callbacks[i], kind, entity, arg),
                  callbacks, i + 1, kind, entity, arg)

\* the callbacks of one registry run in registration order; callbacks that
\* only record leave the World as it is, so their records are added at once
fire(st, callbacks, kind, entity, arg) ==
    IF Retractor \in Range(callbacks)
    THEN fireEach(st, callbacks, 1, kind, entity, arg)
    ELSE [st EXCEPT !.trace = @ \o
             [i \in 1..Len(callbacks) |->
                 [cb |-> kind, fn |-> callbacks[i], entity |-> entity, arg |-> arg,
                  entities |-> st.world.entities]]]

onEntityCreated(st, callback) ==
    [st EXCEPT !.world.onEntityCreatedCallbacks = SetAdd(@, callback)]

onEntityRemoved(st, callback) ==
    [st EXCEPT !.world.onEntityRemovedCallbacks = SetAdd(@, callback)]

onComponentAdded(st, component, callback) ==
    LET m == AutoMapGet(st.world.onComponentAddedCallbacks, component, <<>>)
    IN  [st EXCEPT !.world.onComponentAddedCallbacks =
            AutoMapSet(m, component, SetAdd(m.val[component], callback))]

onComponentRemoved(st, component, callback) ==
    LET m == AutoMapGet(st.world.onComponentRemovedCallbacks, component, <<>>)
    IN  [st EXCEPT !.world.onComponentRemovedCallbacks =
            AutoMapSet(m, component, SetAdd(m.val[component], callback))]

onComponentWithTagAdded(st, tag, callback) ==
    LET m == AutoMapGet(st.world.onComponentWithTagAddedCallbacks, tag, <<>>)
    IN  [st EXCEPT !.world.onComponentWithTagAddedCallbacks =
            AutoMapSet(m, tag, SetAdd(m.val[tag], callback))]

onComponentWithTagRemoved(st, tag, callback) ==
    LET m == AutoMapGet(st.world.onComponentWithTagRemovedCallbacks, tag, <<>>)
    IN  [st EXCEPT !.world.onComponentWithTagRemovedCallbacks =
            AutoMapSet(m, tag, SetAdd(m.val[tag], callback))]

\* the closures the six registrations return
unsubscribeEntityCreated(st, callback) ==
    [st EXCEPT !.world.onEntityCreatedCallbacks = SeqRemove(@, callback)]

unsubscribeEntityRemoved(st, callback) ==
    [st EXCEPT !.world.onEntityRemovedCallbacks = SeqRemove(@, callback)]

unsubscribeComponentAdded(st, component, callback) ==
    LET m == AutoMapGet(st.world.onComponentAddedCallbacks, component, <<>>)
    IN  [st EXCEPT !.world.onComponentAddedCallbacks =
            AutoMapSet(m, component, SeqRemove(m.val[component], callback))]

unsubscribeComponentRemoved(st, component, callback) ==
    LET m == AutoMapGet(st.world.onComponentRemovedCallbacks, component, <<>>)
    IN  [st EXCEPT !.world.onComponentRemovedCallbacks =
            AutoMapSet(m, component, SeqRemove(m.val[component], callback))]

unsubscribeComponentWithTagAdded(st, tag, callback) ==
    LET m == AutoMapGet(st.world.onComponentWithTagAddedCallbacks, tag, <<>>)
    IN  [st EXCEPT !.world.onComponentWithTagAddedCallbacks =
            AutoMapSet(m, tag, SeqRemove(m.val[tag], callback))]

unsubscribeComponentWithTagRemoved(st, tag, callback) ==
    LET m == AutoMapGet(st.world.onComponentWithTagRemovedCallbacks, tag, <<>>)
    IN  [st EXCEPT !.world.onComponentWithTagRemovedCallbacks =
            AutoMapSet(m, tag, SeqRemove(m.val[tag], callback))]

----------------------------------------------------------------------------
(* World: entities and components *)

\* a createEntity that hands out the lowest id no live entity holds
createEntityReusing(st) ==
    LET entity == CHOOSE n \in 0..st.world.nextEntityId :
                      /\ n \notin st.world.entities
                      /\ \A m \in 0..(n - 1) : m \in st.world.entities
        s1 == [st EXCEPT !.world.nextEntityId = @ + 1,
                         !.world.entities = @ \cup {entity}]
        s2 == fire(s1, s1.world.onEntityCreatedCallbacks, "entityCreated", entity, null)
    IN  [s2 EXCEPT !.ret = returnsValue(entity)]

createEntity(st) ==
    LET entity == st.world.nextEntityId
        s1 == [st EXCEPT !.world.nextEntityId = @ + 1,
                         !.world.entities = @ \cup {entity}]
        s2 == fire(s1, s1.world.onEntityCreatedCallbacks, "entityCreated", entity, null)
    IN  [s2 EXCEPT !.ret = returnsValue(entity)]

\* removeComponent, "handle tags": per declared tag, remove from the tag's
\* store, then run the tag-removed callbacks
RECURSIVE removeComponentTags(_, _, _, _, _)
removeComponentTags(st, entity, componentConstructor, tags, i) ==
    IF i > Len(tags) THEN st
    ELSE
        LET t  == tags[i]
            m  == AutoMapGet(st.world.tagSet, t, TagSetNew)
            s1 == [st EXCEPT !.world.tagSet =
                      AutoMapSet(m, t, TagSetRemove(m.val[t], entity, componentConstructor))]
            cm == AutoMapGet(s1.world.onComponentWithTagRemovedCallbacks, t, <<>>)
            s2 == [s1 EXCEPT !.world.onComponentWithTagRemovedCallbacks = cm]
            s3 == fire(s2, cm.val[t], "tagRemoved", entity, componentConstructor)
        IN  removeComponentTags(s3, entity, componentConstructor, tags, i + 1)

removeComponent(st, entity, componentConstructor) ==
    IF ~entityExists(st, entity) THEN [st EXCEPT !.ret = entityDoesNotExistError]
    ELSE
        LET s0 == touchStore(st, componentConstructor)
        IN  IF ~hasComponent(s0, entity, componentConstructor)
            THEN [s0 EXCEPT !.ret = returnsUndefined]
            ELSE
                LET s1 == setStore(s0, componentConstructor,
                              SparseSetRemove(componentStore(s0, componentConstructor), entity))
                    cm == AutoMapGet(s1.world.onComponentRemovedCallbacks,
                                     componentConstructor, <<>>)
                    s2 == [s1 EXCEPT !.world.onComponentRemovedCallbacks = cm]
                    s3 == fire(s2, cm.val[componentConstructor], "componentRemoved",
                               entity, componentConstructor)
                    s4 == removeComponentTags(s3, entity, componentConstructor,
                                              tagsOf(componentConstructor), 1)
                IN  [s4 EXCEPT !.ret = returnsUndefined]

\* addComponent, "handle tags": per declared tag, add to the tag's store,
\* then run the tag-added callbacks
RECURSIVE addComponentTags(_, _, _, _, _)
addComponentTags(st, entity, component, tags, i) ==
    IF i > Len(tags) THEN st
    ELSE
        LET t  == tags[i]
            m  == AutoMapGet(st.world.tagSet, t, TagSetNew)
            s1 == [st EXCEPT !.world.tagSet =
                      AutoMapSet(m, t, TagSetAdd(m.val[t], entity, component))]
            cm == AutoMapGet(s1.world.onComponentWithTagAddedCallbacks, t, <<>>)
            s2 == [s1 EXCEPT !.world.onComponentWithTagAddedCallbacks = cm]
            s3 == fire(s2, cm.val[t], "tagAdded", entity, component)
        IN  addComponentTags(s3, entity, component, tags, i + 1)

\* addComponent from "add component" on: st is the state the removal of a
\* component already held has left
addComponentStore(st, entity, component) ==
    LET ctor == constructorOf(component)
        s2 == setStore(st, ctor, SparseSetAdd(componentStore(st, ctor), entity, component))
        cm == AutoMapGet(s2.world.onComponentAddedCallbacks, ctor, <<>>)
        s3 == [s2 EXCEPT !.world.onComponentAddedCallbacks = cm]
        s4 == fire(s3, cm.val[ctor], "componentAdded", entity, component)
    IN  [addComponentTags(s4, entity, component, tagsOf(component), 1)
            EXCEPT !.ret = returnsUndefined]

\* addComponent without the removal of the component already held
addComponentKeepingOld(st, entity, componentOrCtor) ==
    IF ~entityExists(st, entity) THEN [st EXCEPT !.ret = entityDoesNotExistError]
    ELSE
        LET component == IF isConstructor(componentOrCtor)
                         THEN make(componentOrCtor) ELSE componentOrCtor
        IN  addComponentStore(touchStore(st, constructorOf(component)), entity, component)

addComponent(st, entity, componentOrCtor) ==
    IF ~entityExists(st, entity) THEN [st EXCEPT !.ret = entityDoesNotExistError]
    ELSE
        LET component == IF isConstructor(componentOrCtor)
                         THEN make(componentOrCtor) ELSE componentOrCtor
            ctor == constructorOf(component)
            s0 == touchStore(st, ctor)
        IN  addComponentStore(
                IF hasComponent(s0, entity, ctor)
                THEN removeComponent(s0, entity, ctor) ELSE s0,
                entity, component)

----------------------------------------------------------------------------
(* Relationship *)

\* new Relationship(): _parent = null, no children.  Within this model an
\* entity gets at most one Relationship object in its life, so the object's
\* reference is named after the entity it is created for.
relationshipRef(owner) == [ctor |-> Relationship, id |-> owner]

newRelationship(st, owner) ==
    [st EXCEPT !.heap = [r \in DOMAIN @ \cup {owner} |->
        IF r = owner THEN [_parent |-> <<>>, _children |-> <<>>] ELSE @[r]]]

\* Relationship.Parent, "check for circular relationships": the while loop
\* over the ancestors of parent.  It ends on a falsy currentParent, so on
\* null and on the id 0 alike; on a cycle of parent pointers that does not
\* hold child it never ends.
RECURSIVE ancestorWalk(_, _, _, _)
ancestorWalk(st, currentParent, child, seen) ==
    IF ~truthy(currentParent) THEN "none"
    ELSE IF currentParent[1] = child THEN "circular"
    ELSE IF currentParent[1] \in seen THEN "diverges"
    ELSE
        LET currentRelationship == getComponent(st, currentParent[1], Relationship)
            next == IF currentRelationship = null THEN <<>>
                    ELSE st.heap[currentRelationship.id]._parent
        IN  ancestorWalk(st, next, child, seen \cup {currentParent[1]})

\* Unparent without the check that both entities exist
UnparentUnchecked(st, parent, child) ==
    LET s0 == touchStore(st, Relationship)
        childRelationship  == getComponent(s0, child, Relationship)
        parentRelationship == getComponent(s0, parent, Relationship)
    IN  IF childRelationship = null THEN [s0 EXCEPT !.ret = returnsUndefined]
        ELSE IF parentRelationship = null THEN [s0 EXCEPT !.ret = returnsUndefined]
        ELSE
            LET s1 == IF s0.heap[childRelationship.id]._parent = <<parent>>
                      THEN [s0 EXCEPT !.heap[childRelationship.id]._parent = <<>>]
                      ELSE s0
                s2 == [s1 EXCEPT !.heap[parentRelationship.id]._children =
                          SeqRemove(@, child)]
            IN  [s2 EXCEPT !.ret = returnsUndefined]

Unparent(st, parent, child) ==
    IF ~entityExists(st, parent) \/ ~entityExists(st, child)
    THEN [st EXCEPT !.ret = entityDoesNotExistError]
    ELSE
        LET s0 == touchStore(st, Relationship)
            childRelationship  == getComponent(s0, child, Relationship)
            parentRelationship == getComponent(s0, parent, Relationship)
        IN  IF childRelationship = null THEN [s0 EXCEPT !.ret = returnsUndefined]
            ELSE IF parentRelationship = null THEN [s0 EXCEPT !.ret = returnsUndefined]
            ELSE
                LET s1 == IF s0.heap[childRelationship.id]._parent = <<parent>>
                          THEN [s0 EXCEPT !.heap[childRelationship.id]._parent = <<>>]
                          ELSE s0
                    s2 == [s1 EXCEPT !.heap[parentRelationship.id]._children =
                              SeqRemove(@, child)]
                IN  [s2 EXCEPT !.ret = returnsUndefined]

\* Parent, the last two statements: st is the state the Unparent from the
\* old parent has left
ParentLink(st, parent, child) ==
    LET parentRelationship == getComponent(st, parent, Relationship)
        childRelationship  == getComponent(st, child, Relationship)
    IN  [st EXCEPT !.heap[parentRelationship.id]._children = SetAdd(@, child),
                   !.heap[childRelationship.id]._parent = <<parent>>,
                   !.ret = returnsUndefined]

\* Parent from "let oldParent" on: st is the state in which both entities
\* have their Relationship
ParentOld(st, parent, child) ==
    LET childRelationship == getComponent(st, child, Relationship)
        oldParent == st.heap[childRelationship.id]._parent
    IN  ParentLink(IF truthy(oldParent) THEN Unparent(st, oldParent[1], child) ELSE st,
                   parent, child)

\* Parent from "let childRelationship" on: st is the state the circular
\* check has passed
ParentChild(st, parent, child) ==
    ParentOld(IF getComponent(st, child, Relationship) = null
              THEN addComponent(newRelationship(st, child), child, relationshipRef(child))
              ELSE st,
              parent, child)

Parent(st, parent, child) ==
    IF ~entityExists(st, parent) \/ ~entityExists(st, child)
    THEN [st EXCEPT !.ret = entityDoesNotExistError]
    ELSE
        LET s0 == touchStore(st, Relationship)
            found == getComponent(s0, parent, Relationship)
            walk == IF found = null THEN "none"
                    ELSE ancestorWalk(s0, <<parent>>, child, {})
        IN  IF walk = "circular" THEN [s0 EXCEPT !.ret = circularRelationshipError]
            ELSE IF walk = "diverges" THEN [s0 EXCEPT !.outcome = "diverges"]
            ELSE ParentChild(
                     IF found = null
                     THEN addComponent(newRelationship(s0, parent), parent,
                                       relationshipRef(parent))
                     ELSE s0,
                     parent, child)

----------------------------------------------------------------------------
(* World.removeEntity *)

\* removeEntity, "remove each component": removeComponent for every key of
\* the component map, in the map's order
RECURSIVE removeEachComponent(_, _, _, _)
removeEachComponent(st, entity, keys, i) ==
    IF i > Len(keys) THEN st
    ELSE removeEachComponent(removeComponent(st, entity, keys[i]), entity, keys, i + 1)

RECURSIVE removeEntityAt(_, _, _)
RECURSIVE removeChildEntities(_, _, _, _, _)

\* the for-of loop after removeEntity(childEntity) has run for children[i]:
\* a RangeError ends the loop, a return takes it to the next child
removeNextChild(st, relationship, children, i, depth) ==
    IF st.outcome # "returned" THEN st
    ELSE removeChildEntities(st, relationship, children, i + 1, depth)

\* removeEntity, "recursively remove child entities": the for-of loop over
\* the live child Set.  The loop body only ever deletes from the Set, so the
\* loop visits, in insertion order, the children still in the Set when their
\* turn comes.
removeChildEntities(st, relationship, children, i, depth) ==
    IF i > Len(children) THEN st
    ELSE IF children[i] \notin Range(st.heap[relationship.id]._children)
    THEN removeChildEntities(st, relationship, children, i + 1, depth)
    ELSE removeNextChild(removeEntityAt(st, children[i], depth + 1),
                         relationship, children, i, depth)

\* removeEntity that returns without this.#entities.delete(entity)
removeEntityKeep(st, entity) == [st EXCEPT !.ret = returnsUndefined]

\* removeEntity, the last statement
removeEntityDelete(st, entity) ==
    [st EXCEPT !.world.entities = @ \ {entity}, !.ret = returnsUndefined]

\* removeEntity from "callbacks" on: st is the state the removal of the
\* children has left
removeEntityCallbacks(st, entity) ==
    IF st.outcome # "returned" THEN st
    ELSE removeEntityDelete(
             removeEachComponent(
                 fire(st, st.world.onEntityRemovedCallbacks, "entityRemoved", entity, null),
                 entity, st.world.componentMap.keys, 1),
             entity)

\* removeEntity, "recursively remove child entities": st is the state the
\* unparenting has left
removeEntityChildren(st, entity, depth) ==
    LET relationship == getComponent(st, entity, Relationship)
    IN  removeEntityCallbacks(
            IF relationship # null
            THEN removeChildEntities(st, relationship,
                     st.heap[relationship.id]._children, 1, depth)
            ELSE st,
            entity)

\* removeEntity, "unparent from parent"
removeEntityUnparent(st, entity) ==
    LET relationship == getComponent(st, entity, Relationship)
    IN  IF relationship # null /\ truthy(st.heap[relationship.id]._parent)
        THEN Unparent(st, st.heap[relationship.id]._parent[1], entity)
        ELSE st

\* removeEntity running at the given depth of the call stack
removeEntityAt(st, entity, depth) ==
    IF depth > MaxStack THEN [st EXCEPT !.outcome = "RangeError"]
    ELSE IF ~entityExists(st, entity) THEN [st EXCEPT !.ret = entityDoesNotExistError]
    ELSE removeEntityChildren(
             removeEntityUnparent(touchStore(st, Relationship), entity), entity, depth)

removeEntity(st, entity) == removeEntityAt(st, entity, 1)

----------------------------------------------------------------------------
(* World.componentIterator *)

\* array.length = n: truncates, or extends with holes
setLength(array, n) ==
    [i \in 1..n |-> IF i <= Len(array) THEN array[i] ELSE undefined]

\* array[index] = value, index 0-based: a write past the end extends the array
setIndex(array, index, value) ==
    [i \in 1..(IF index + 1 > Len(array) THEN index + 1 ELSE Len(array)) |->
        IF i = index + 1 THEN value
        ELSE IF i <= Len(array) THEN array[i] ELSE undefined]

\* "find smallest": the store the loop over components[1..] leaves in
\* smallest (as <<its class>>), or <<>> when it meets an empty store and
\* returns
RECURSIVE findSmallest(_, _, _, _)
findSmallest(st, components, i, smallest) ==
    IF i > Len(components) THEN smallest
    ELSE
        LET set == componentStore(st, components[i])
        IN  IF SparseSetSize(set) = 0 THEN <<>>
            ELSE IF SparseSetSize(set) < SparseSetSize(componentStore(st, smallest[1]))
            THEN findSmallest(st, components, i + 1, <<components[i]>>)
            ELSE findSmallest(st, components, i + 1, smallest)

\* the inner for loop: fills the shared tuple for one entity; missing is TRUE
\* when a requested component is absent ("continue outer")
RECURSIVE fillTuple(_, _, _, _, _)

\* fillTuple without the check for a missing component
RECURSIVE fillTupleNoSkip(_, _, _, _, _)
fillTupleNoSkip(st, components, entity, i, buffer) ==
    IF i > Len(components) THEN [buffer |-> buffer, missing |-> FALSE]
    ELSE
        LET c == SparseSetGet(componentStore(st, components[i]), entity)
        IN  fillTupleNoSkip(st, components, entity, i + 1, setIndex(buffer, i, c))

fillTuple(st, components, entity, i, buffer) ==
    IF i > Len(components) THEN [buffer |-> buffer, missing |-> FALSE]
    ELSE
        LET c == SparseSetGet(componentStore(st, components[i]), entity)
            b == setIndex(buffer, i, c)
        IN  IF c = undefined THEN [buffer |-> b, missing |-> TRUE]
            ELSE fillTuple(st, components, entity, i + 1, b)

\* what next() of a generator returns
yields(value) == returnsValue([value |-> value, done |-> FALSE])
finished == returnsValue([value |-> undefined, done |-> TRUE])

\* a generator object of componentIterator: the arguments of the call, where
\* the body is suspended, and the locals that live across a yield: smallest
\* (as the class of the store) and the index i of the SparseSet iterator
\* the outer loop runs
suspendedStart == "suspendedStart"
suspendedYield == "suspendedYield"
closed == "closed"

\* the outer loop over the smallest store, entered or resumed with the
\* SparseSet iterator at index i (0-based) of the store as it is now: it
\* runs to the next yield or to the end of the store.  The result is the
\* machine state (ret holds what next() returns) and the generator
RECURSIVE iterateSmallest(_, _, _)
iterateSmallest(st, g, i) ==
    LET store == componentStore(st, g.smallest)
    IN  IF ~(i < Len(store.dense))
        THEN [st |-> [st EXCEPT !.ret = finished],
              g  |-> [g EXCEPT !.state = closed]]
        ELSE
            LET entity == store.dense[i + 1]
                f == fillTuple(st, g.components, entity, 1,
                               setIndex(st.world.sharedComponentIterResult, 0, entity))
                filled == [st EXCEPT !.world.sharedComponentIterResult = f.buffer]
            IN  IF f.missing THEN iterateSmallest(filled, g, i + 1)
                ELSE [st |-> [filled EXCEPT !.ret = yields(f.buffer)],
                      g  |-> [g EXCEPT !.state = suspendedYield, !.i = i]]

RECURSIVE touchStores(_, _, _)
touchStores(st, components, n) ==
    IF n = 0 THEN st ELSE touchStore(touchStores(st, components, n - 1), components[n])

\* the body of componentIterator from its first line to the first yield
componentIteratorBody(st, g) ==
    IF Len(g.components) = 0
    THEN [st |-> [st EXCEPT !.ret = finished], g |-> [g EXCEPT !.state = closed]]
    ELSE
        LET smallest == findSmallest(st, g.components, 2, <<g.components[1]>>)
        IN  IF smallest = <<>>
            THEN LET first == CHOOSE i \in 2..Len(g.components) :
                                  /\ SparseSetSize(componentStore(st, g.components[i])) = 0
                                  /\ \A j \in 2..(i - 1) :
                                         SparseSetSize(componentStore(st, g.components[j])) # 0
                 IN  [st |-> [touchStores(st, g.components, first) EXCEPT !.ret = finished],
                      g  |-> [g EXCEPT !.state = closed]]
            ELSE
                LET s0 == touchStores(st, g.components, Len(g.components))
                    store == componentStore(s0, smallest[1])
                IN  iterateSmallest(
                        [s0 EXCEPT !.world.sharedComponentIterResult =
                                       setLength(@, SparseSetSize(store))],
                        [g EXCEPT !.smallest = smallest[1]], 0)

\* componentIterator(...components): the call runs nothing of the body and
\* returns a generator
componentIterator(components) ==
    [components |-> components, state |-> suspendedStart, smallest |-> undefined, i |-> 0]

\* generator.next(): the body runs from where it is suspended to its next
\* yield or to its end; a generator that has ended stays ended
iteratorNext(st, g) ==
    CASE g.state = closed -> [st |-> [st EXCEPT !.ret = finished], g |-> g]
      [] g.state = suspendedStart -> componentIteratorBody(st, g)
      [] g.state = suspendedYield -> iterateSmallest(st, g, g.i + 1)

----------------------------------------------------------------------------
(* EventQueue (queue.ts).  A machine state of the queue is the record      *)
(* [q, log]: q the fields of the object, log what the listeners and the    *)
(* driver have seen.  The arrays queue and nextQueue are flat, as in the   *)
(* source: event, payload, event, payload, ...                             *)

EvA == "eventA"
EvB == "eventB"
EventTypes == {EvA, EvB}

\* the listeners of the driver: Relay pushes an eventB from inside its call,
\* RecorderA and RecorderB only note what they are called with
Relay == "relay"
RecorderA == "recorderA"
RecorderB == "recorderB"

\* the payload of an event is the serial number of its push
payloadOf(n) == [payload |-> n]

\* push that does not look at hasFlushed
pushToFront(st, event, data, inside) ==
    [st EXCEPT !.log.pushes = Append(@,
                   [event |-> event, payload |-> data, inside |-> inside,
                    call |-> st.log.calls, clears |-> st.log.clears,
                    front |-> TRUE]),
               !.q.queue = @ \o <<event, data>>]

\* EventQueue.push; inside tells whether a listener makes the call.  The
\* log notes the number of dispatchQueue calls begun and of clear calls made
\* so far (at holds, per dispatchQueue call, the clear calls made before
\* it, and heard the listeners subscribed when it began)
push(st, event, data, inside) ==
    LET noted == [st EXCEPT !.log.pushes = Append(@,
                     [event |-> event, payload |-> data, inside |-> inside,
                      call |-> st.log.calls, clears |-> st.log.clears,
                      front |-> ~st.q.hasFlushed])]
    IN  IF st.q.hasFlushed
        THEN [noted EXCEPT !.q.nextQueue = @ \o <<event, data>>]
        ELSE [noted EXCEPT !.q.queue = @ \o <<event, data>>]

\* listener(payload): every listener notes the call; Relay then pushes
callListener(st, listener, event, payload) ==
    LET noted == [st EXCEPT !.log.deliveries = Append(@,
                     [listener |-> listener, event |-> event, payload |-> payload,
                      call |-> st.log.calls, clears |-> st.log.clears])]
    IN  IF listener = Relay
        THEN push(noted, EvB, payloadOf(Len(noted.log.pushes) + 1), TRUE)
        ELSE noted

\* dispatchQueue, the inner for-of loop over the listeners of one event
RECURSIVE callListeners(_, _, _, _, _)
callListeners(st, listeners, k, event, payload) ==
    IF k > Len(listeners) THEN st
    ELSE callListeners(callListener(st, listeners[k], event, payload),
                       listeners, k + 1, event, payload)

\* dispatchQueue, the outer loop: i is the 0-based index into this.queue
RECURSIVE dispatchLoop(_, _)
dispatchLoop(st, i) ==
    IF ~(i < Len(st.q.queue)) THEN st
    ELSE
        LET event == st.q.queue[i + 1]
            payload == st.q.queue[i + 2]
            listeners == AutoMapGet(st.q.listeners, event, <<>>)
        IN  dispatchLoop(
                callListeners([st EXCEPT !.q.listeners = listeners],
                              listeners.val[event], 1, event, payload),
                i + 2)

\* dispatchQueue that empties the queue it has dispatched
dispatchQueueConsuming(st) ==
    LET done == dispatchLoop([st EXCEPT !.q.hasFlushed = TRUE,
                                         !.log.calls = @ + 1,
                                         !.log.at = Append(@, st.log.clears),
                                         !.log.heard = Append(@, st.q.listeners)], 0)
    IN  [done EXCEPT !.q.queue = <<>>]

dispatchQueue(st) ==
    dispatchLoop([st EXCEPT !.q.hasFlushed = TRUE,
                            !.log.calls = @ + 1,
                            !.log.at = Append(@, st.log.clears),
                            !.log.heard = Append(@, st.q.listeners)], 0)

\* clear that leaves hasFlushed as it is
clearKeepingFlag(st) ==
    [st EXCEPT !.q.queue = st.q.nextQueue,
               !.q.nextQueue = <<>>,
               !.log.clears = @ + 1]

\* EventQueue.clear: the emptied front array becomes the back array
clear(st) ==
    [st EXCEPT !.q.queue = st.q.nextQueue,
               !.q.nextQueue = <<>>,
               !.q.hasFlushed = FALSE,
               !.log.clears = @ + 1]

dispatchAndClear(st) == clear(dispatchQueue(st))

\* EventQueue.unsubscribe: the listener leaves the Set of the type, which
\* listeners.get creates when the type has none
unsubscribe(st, type, listener) ==
    LET m == AutoMapGet(st.q.listeners, type, <<>>)
    IN  [st EXCEPT !.q.listeners = AutoMapSet(m, type, SeqRemove(m.val[type], listener))]

\* the function subscribe returns: () => void this.unsubscribe(type, listener)
unsubscriber(type, listener) == [fn |-> "unsubscribe", type |-> type, listener |-> listener]

\* calling the function subscribe returned
callUnsubscriber(st, off) == unsubscribe(st, off.type, off.listener)

\* EventQueue.subscribe; log.offs holds the functions it has returned
subscribe(st, type, listener) ==
    LET m == AutoMapGet(st.q.listeners, type, <<>>)
    IN  [st EXCEPT !.q.listeners = AutoMapSet(m, type, SetAdd(m.val[type], listener)),
                   !.log.offs = @ \cup {unsubscriber(type, listener)}]

\* EventQueue[Symbol.iterator]: the [event, payload] pairs of this.queue
queueIterator(q) ==
    [k \in 1..(Len(q.queue) \div 2) |-> <<q.queue[2 * k - 1], q.queue[2 * k]>>]

\* new EventQueue()
newEventQueue ==
    [q   |-> [listeners |-> AutoMapNew, queue |-> <<>>, nextQueue |-> <<>>,
              hasFlushed |-> FALSE],
     log |-> [pushes |-> <<>>, deliveries |-> <<>>, calls |-> 0, clears |-> 0,
              at |-> <<>>, heard |-> <<>>, offs |-> {}, changes |-> 0]]

\* the queue the driver starts from: Relay and RecorderA listen to eventA,
\* RecorderB listens to eventB
subscribed ==
    subscribe(subscribe(subscribe(newEventQueue, EvA, Relay), EvA, RecorderA),
              EvB, RecorderB)

----------------------------------------------------------------------------
(* System (system.ts) and the system lifecycle of the World (world.ts).    *)
(* A machine state of the lifecycle is the record [active, systems,        *)
(* systemsIndexedByType, instances, removed, log, serial, calls, outcome,   *)
(* current]: the World's fields, the process-wide current-world slot,      *)
(* the System objects constructed so far (a System is                      *)
(* named by its index in instances), what removeSystem returned, a log of  *)
(* every hook and callback invocation and every registration, and the      *)
(* number of calls the driver has made.                                    *)

\* System classes: the startup() of FreeLookControlSystem queues three
\* shutdown callbacks, the functions Input.on returned (freelook.ts); the startup() of BindingSystem registers a
\* whenStarted callback
FreeLookControlSystem == "FreeLookControlSystem"
BindingSystem == "BindingSystem"
SystemTypes == {FreeLookControlSystem, BindingSystem}

\* a System class whose startup() registers another System class with its
\* World: startup() { this.world.addSystem(FreeLookControlSystem) }
SpawnerSystem == "SpawnerSystem"

\* the abstract base class, which both extend: no instance has it as its
\* exact class
System == "System"

\* instance instanceof system
instanceOf(instance, system) == system = System \/ instance.ctor = system

\* functions: a named function, or the n-th closure a call created
function(name) == [fn |-> name, serial |-> 0]
closure(name, n) == [fn |-> name, serial |-> n]
nothing == function("undefined")

\* whenStarted callbacks: watch returns nothing, acquire returns a new
\* closure release on every call, bind is the one BindingSystem registers
watch == function("watch")
acquire == function("acquire")
bind == function("bind")

\* a whenShutdown callback of the driver
cleanup == function("cleanup")

\* the user-defined hooks of a System
hook == function("hook")

\* checks.ts isFunction()
isFunction(value) == value # nothing

\* the values of globalThis.ELYSIA_CURRENT_WORLD: unbound, the World the
\* model follows, and another World
noWorld == "undefined"
thisWorld == "this"
otherWorld == "other"

\* a log entry: what ran (kind, fn), for which System, called from where,
\* with the System's active flag, the number of activations and
\* deactivations it has begun, and the current-world slot at that moment
note(st, i, kind, f, from) ==
    [st EXCEPT !.log = Append(@,
        [kind |-> kind, system |-> i, fn |-> f, from |-> from,
         current |-> st.current,
         active |-> st.instances[i].active,
         activation |-> st.instances[i].activations,
         deactivation |-> st.instances[i].deactivations])]

\* this.#shutdownCallbacks.add(c)
shutdownCallbacksAdd(st, i, c, from) ==
    [note(st, i, "queued", c, from)
        EXCEPT !.instances[i].shutdownCallbacks = SetAdd(@, c)]

\* if (isFunction(maybeShutdownCallback)) this.#shutdownCallbacks.add(...)
addIfFunction(st, i, maybeShutdownCallback, from) ==
    IF isFunction(maybeShutdownCallback)
    THEN shutdownCallbacksAdd(st, i, maybeShutdownCallback, from)
    ELSE st

\* what the call c(this) returns
returned(st, c) ==
    IF c = acquire THEN closure("release", st.serial + 1) ELSE nothing

\* const maybeShutdownCallback = c(this), and the isFunction test after it
callStarted(st, i, c, from) ==
    addIfFunction([note(st, i, "started", c, from) EXCEPT !.serial = @ + 1],
                  i, returned(st, c), from)

callIfActive(st, i, c) ==
    IF st.instances[i].active THEN callStarted(st, i, c, "whenStarted") ELSE st

\* System.whenStarted(...callbacks)
RECURSIVE whenStarted(_, _, _)
whenStarted(st, i, callbacks) ==
    IF callbacks = <<>> THEN st
    ELSE whenStarted(
             callIfActive(
                 [note(st, i, "whenStarted", Head(callbacks), "whenStarted")
                     EXCEPT !.instances[i].startedCallbacks = SetAdd(@, Head(callbacks))],
                 i, Head(callbacks)),
             i, Tail(callbacks))

\* System.whenShutdown(...callbacks)
RECURSIVE whenShutdown(_, _, _)
whenShutdown(st, i, callbacks) ==
    IF callbacks = <<>> THEN st
    ELSE whenShutdown(shutdownCallbacksAdd(st, i, Head(callbacks), "whenShutdown"),
                      i, Tail(callbacks))

\* the body of the user-defined startup() of each System class
RECURSIVE addSystem(_, _)
startupBody(st, i) ==
    CASE st.instances[i].ctor = SpawnerSystem ->
             addSystem(st, FreeLookControlSystem)
      [] st.instances[i].ctor = FreeLookControlSystem ->
             whenShutdown([st EXCEPT !.serial = @ + 1], i,
                          <<closure("off", st.serial + 1),
                            closure("off2", st.serial + 1),
                            closure("off3", st.serial + 1)>>)
      [] st.instances[i].ctor = BindingSystem ->
             whenStarted(st, i, <<bind>>)

\* this.startup?.()
startupHook(st, i, from) == startupBody(note(st, i, "startup", hook, from), i)

\* this.update?.(frametime)
updateHook(st, i, from) == note(st, i, "update", hook, from)

\* this.shutdown?.()
shutdownHook(st, i, from) == note(st, i, "shutdown", hook, from)

\* asserts.ts assert()
threw(st) == [st EXCEPT !.outcome = "threw"]

\* for (let c of this.#startedCallbacks): a Set is walked live, callbacks
\* added during the walk are visited by it
RECURSIVE startedLoop(_, _, _)
startedLoop(st, i, k) ==
    IF k > Len(st.instances[i].startedCallbacks) THEN st
    ELSE startedLoop(callStarted(st, i, st.instances[i].startedCallbacks[k],
                                 "__runStartup"),
                     i, k + 1)

\* System.__runStartup()
runStartup(st, i) ==
    IF st.instances[i].active THEN threw(st)
    ELSE startedLoop(
             startupHook([st EXCEPT !.instances[i].active = TRUE,
                                    !.instances[i].activations = @ + 1],
                         i, "__runStartup"),
             i, 1)

\* this.#shutdownCallbacks.forEach((callback) => callback())
RECURSIVE stoppedLoop(_, _, _)
stoppedLoop(st, i, k) ==
    IF k > Len(st.instances[i].shutdownCallbacks) THEN st
    ELSE stoppedLoop(note(st, i, "stopped", st.instances[i].shutdownCallbacks[k],
                          "__runShutdown"),
                     i, k + 1)

\* a clear() that leaves the callbacks queued
shutdownCallbacksKeep(st, i) == st

\* this.#shutdownCallbacks.clear()
shutdownCallbacksClear(st, i) ==
    [st EXCEPT !.instances[i].shutdownCallbacks = <<>>]

\* System.__runShutdown()
runShutdown(st, i) ==
    IF ~st.instances[i].active THEN threw(st)
    ELSE shutdownHook(
             shutdownCallbacksClear(
                 stoppedLoop([st EXCEPT !.instances[i].active = FALSE,
                                        !.instances[i].deactivations = @ + 1],
                             i, 1),
                 i),
             i, "__runShutdown")

\* System.__runUpdate()
runUpdate(st, i) ==
    IF ~st.instances[i].active THEN threw(st)
    ELSE updateHook(st, i, "__runUpdate")

\* a System as its field initialisers leave it
newSystem(ctor, currentWorld) ==
    [ctor |-> ctor, world |-> currentWorld, active |-> FALSE,
     startedCallbacks |-> <<>>, shutdownCallbacks |-> <<>>,
     activations |-> 0, deactivations |-> 0]

\* an addSystem that never starts the System
startupNever(st, instance) == st

\* if (this.#active) { instance.__runStartup?.(); }
startupIfActive(st, instance) ==
    IF st.active THEN runStartup(st, instance) ELSE st

\* globalThis.ELYSIA_CURRENT_WORLD = this
rebound(st) == [st EXCEPT !.current = thisWorld]

\* globalThis.ELYSIA_CURRENT_WORLD = prev, the statement a call reaches when
\* nothing before it threw
restored(st, prev) ==
    IF st.outcome = "threw" THEN st ELSE [st EXCEPT !.current = prev]

\* make(system, ...args): the constructor of System reads the slot and
\* asserts it is bound
made(st, system) ==
    IF st.current = noWorld THEN threw(st)
    ELSE [st EXCEPT !.instances = Append(@, newSystem(system, st.current))]

\* World.addSystem()
addSystem(st, system) ==
    startupIfActive(
        [restored(made(rebound(st), system), st.current)
            EXCEPT !.systems = SetAdd(@, Len(st.instances) + 1),
                   !.systemsIndexedByType =
                       (system :> Len(st.instances) + 1)
                           @@ [c \in DOMAIN @ \ {system} |-> @[c]]],
        Len(st.instances) + 1)

\* a removeSystem that runs the shutdown transition of the System
removeSystemDeactivating(st, system) ==
    IF system \in DOMAIN st.systemsIndexedByType
    THEN runShutdown(
             [st EXCEPT !.systems = SeqRemove(@, st.systemsIndexedByType[system]),
                        !.systemsIndexedByType =
                            [c \in DOMAIN @ \ {system} |-> @[c]],
                        !.removed = <<st.systemsIndexedByType[system]>>],
             st.systemsIndexedByType[system])
    ELSE [st EXCEPT !.removed = <<>>]

\* World.removeSystem(): the instance it returns as <<instance>>, <<>> for null
removeSystem(st, system) ==
    IF system \in DOMAIN st.systemsIndexedByType
    THEN shutdownHook(
             [st EXCEPT !.systems = SeqRemove(@, st.systemsIndexedByType[system]),
                        !.systemsIndexedByType =
                            [c \in DOMAIN @ \ {system} |-> @[c]],
                        !.removed = <<st.systemsIndexedByType[system]>>],
             st.systemsIndexedByType[system], "removeSystem")
    ELSE [st EXCEPT !.removed = <<>>]

\* for (const system of this.#systems) { system.__runStartup?.(); }
RECURSIVE startupLoop(_, _)
startupLoop(st, k) ==
    IF st.outcome = "threw" \/ k > Len(st.systems) THEN st
    ELSE startupLoop(runStartup(st, st.systems[k]), k + 1)

\* for (const system of this.#systems) { system.__runUpdate?.(frametime); }
RECURSIVE updateLoop(_, _)
updateLoop(st, k) ==
    IF st.outcome = "threw" \/ k > Len(st.systems) THEN st
    ELSE updateLoop(runUpdate(st, st.systems[k]), k + 1)

\* for (const system of this.#systems) { system.__runShutdown?.(); }
RECURSIVE shutdownLoop(_, _)
shutdownLoop(st, k) ==
    IF st.outcome = "threw" \/ k > Len(st.systems) THEN st
    ELSE shutdownLoop(runShutdown(st, st.systems[k]), k + 1)

\* a World.startup() that flags the World active and starts no System
startupWorldOnly(st) == IF st.active THEN st ELSE [st EXCEPT !.active = TRUE]

\* World.startup()
startup(st) ==
    IF st.active THEN st
    ELSE restored(startupLoop(rebound([st EXCEPT !.active = TRUE]), 1), st.current)

\* World.update()
update(st) ==
    IF ~st.active THEN st
    ELSE restored(updateLoop(rebound(st), 1), st.current)

\* a World.shutdown() without its guard
shutdownUnguarded(st) ==
    restored(shutdownLoop(rebound([st EXCEPT !.active = FALSE]), 1), st.current)

\* World.shutdown()
shutdown(st) ==
    IF ~st.active THEN st
    ELSE restored(shutdownLoop(rebound([st EXCEPT !.active = FALSE]), 1), st.current)

\* a World as its field initialisers leave it
newLifecycle ==
    [active |-> FALSE, current |-> noWorld,
     systems |-> <<>>, systemsIndexedByType |-> <<>>,
     instances |-> <<>>, removed |-> <<>>, log |-> <<>>, serial |-> 0,
     calls |-> 0, outcome |-> "returned"]

----------------------------------------------------------------------------
(* ObjectPool (objpool.ts) *)

\* createObject(index) of the driver: a new object each time, ref being the
\* identity of the object
createObject(p, index) == [index |-> index, ref |-> p.created + 1]

\* const object = this.createObject(index); this.resetObject?.(object);
\* this.inactive.push(object)
grown(p, index) ==
    [p EXCEPT !.inactive = Append(@, createObject(p, index)),
              !.created = @ + 1,
              !.resets = @ + 1]

\* for (let index = 0; index < amount; index++) { ... from + index ... }
RECURSIVE grow(_, _, _, _)
grow(p, from, amount, index) ==
    IF index >= amount THEN p
    ELSE grow(grown(p, from + index), from, amount, index + 1)

\* the fields of an ObjectPool as their initialisers leave them
emptyPool ==
    [inactive |-> <<>>, active |-> <<>>, created |-> 0, resets |-> 0,
     initialSize |-> 0, returned |-> undefined, calls |-> 0]

\* new ObjectPool({ initialSize, createObject, resetObject })
ObjectPool(initialSize) ==
    grow([emptyPool EXCEPT !.initialSize = initialSize], 0, initialSize, 0)

\* get size()
size(p) == Len(p.inactive) + Len(p.active)

\* get sizeOfActive()
sizeOfActive(p) == Len(p.active)

\* get sizeOfReserve()
sizeOfReserve(p) == Len(p.inactive)

\* the default growthStrategy: (it) => it * 2
growthStrategy(it) == it * 2

\* what this.inactive.pop() returns
last(p) == IF p.inactive = <<>> THEN undefined ELSE p.inactive[Len(p.inactive)]

\* what this.inactive.pop() leaves
popped(p) ==
    IF p.inactive = <<>> THEN p
    ELSE [p EXCEPT !.inactive = SubSeq(@, 1, Len(@) - 1)]

\* this.active.add(object); return object
activated(p, object) ==
    [p EXCEPT !.active = SetAdd(@, object), !.returned = object]

\* the branch of alloc() taken when pop() gave no object, p being the pool
\* after that pop
allocGrowing(p) ==
    activated(popped(grow(p, size(p), growthStrategy(size(p)), 0)),
              last(grow(p, size(p), growthStrategy(size(p)), 0)))

\* ObjectPool.alloc()
alloc(p) ==
    IF last(p) # undefined THEN activated(popped(p), last(p))
    ELSE allocGrowing(popped(p))

\* ObjectPool.free()
free(p, object) ==
    IF object \in Range(p.active)
    THEN [p EXCEPT !.active = SeqRemove(@, object),
                   !.inactive = Append(@, object),
                   !.resets = @ + 1,
                   !.returned = undefined]
    ELSE [p EXCEPT !.returned = undefined]

\* ObjectPool.freeAll()
freeAll(p) ==
    [p EXCEPT !.inactive = @ \o p.active,
              !.resets = @ + Len(p.active),
              !.active = <<>>,
              !.returned = undefined]

----------------------------------------------------------------------------
(* ActorSystem (actor.ts) on the World.  The lifecycle methods of an actor *)
(* component do nothing but get recorded in the trace.                     *)

\* the tag of the components ActorSystem ticks; the classes A and B declare it
participatesInLifecycleTag == "T1"

\* the ActorSystem instance, as the caller of the actor methods it invokes
\* itself, and the two closures its startup() registers with the World
ActorSystem == 4
startupActor == 5
shutdownActor == 6

\* the [entity, component] pairs a SparseSet yields
pairsOf(ss) == [i \in 1..Len(ss.dense) |-> <<ss.dense[i], ss.components[i]>>]

\* TagSet[Symbol.iterator]: the pairs of each SparseSet, in key order
RECURSIVE tagSetPairs(_, _)
tagSetPairs(ts, k) ==
    IF k > Len(ts.keys) THEN <<>>
    ELSE pairsOf(ts.val[ts.keys[k]]) \o tagSetPairs(ts, k + 1)

\* World.tagIterator(tag), run to completion
tagIterator(st, tag) == tagSetPairs(tagStore(st, tag), 1)

\* for (const [entity, actor] of this.world.tagIterator(tag))
\*     actor.<method>?.(entity, this.world)
tickActors(st, method) ==
    [st EXCEPT
        !.world.tagSet = AutoMapGet(@, participatesInLifecycleTag, TagSetNew),
        !.trace = @ \o
            [i \in 1..Len(tagIterator(st, participatesInLifecycleTag)) |->
                [cb |-> method, fn |-> ActorSystem,
                 entity |-> tagIterator(st, participatesInLifecycleTag)[i][1],
                 arg |-> tagIterator(st, participatesInLifecycleTag)[i][2],
                 entities |-> st.world.entities]]]

\* ActorSystem.startup(), called by __runStartup
actorSystemStartup(st) ==
    onComponentWithTagRemoved(
        onComponentWithTagAdded(tickActors(st, "startup"),
                                participatesInLifecycleTag, startupActor),
        participatesInLifecycleTag, shutdownActor)

\* __runShutdown of the ActorSystem: the two unsubscribe closures queued with
\* whenShutdown, then ActorSystem.shutdown()
actorSystemShutdown(st) ==
    tickActors(
        unsubscribeComponentWithTagRemoved(
            unsubscribeComponentWithTagAdded(st, participatesInLifecycleTag,
                                             startupActor),
            participatesInLifecycleTag, shutdownActor),
        "shutdown")

\* whether the ActorSystem is active: its closures are registered exactly
\* from its startup to its shutdown
actorSystemActive(st) ==
    /\ participatesInLifecycleTag \in DOMAIN st.world.onComponentWithTagRemovedCallbacks.val
    /\ shutdownActor \in
           Range(st.world.onComponentWithTagRemovedCallbacks.val[participatesInLifecycleTag])

\* the calls of component.shutdown(entity, world) a trace holds: those the
\* ActorSystem made itself, and those its closure
\* (world, entity, actor) => actor.shutdown?.(entity, world) made, which
\* reaches an instance method only when it is handed an instance (a class
\* has no static shutdown)
shutdownCalls(tr, entity, component) ==
    {i \in DOMAIN tr :
        /\ tr[i].entity = entity
        /\ tr[i].arg = component
        /\ ~isConstructor(tr[i].arg)
        /\ \/ tr[i].fn = ActorSystem /\ tr[i].cb = "shutdown"
           \/ tr[i].fn = shutdownActor /\ tr[i].cb = "tagRemoved"}

----------------------------------------------------------------------------
(* The World under its driver *)

\* the entity ids a driver bounded by n passes: every id createEntity can
\* return to it, and one it never returns
EntityIds(n) == 0..n

\* the one recording callback the driver subscribes to every registry
Observer == 1

\* the component lists the driver passes to componentIterator
Queries == {<<a>> : a \in UserTypes} \cup {<<a, b>> : a, b \in UserTypes}

\* world.ts 603-653: the field initialisers, then the constructor, which
\* creates the singleton entity 0
constructor ==
    createEntity(
        [world |-> [entities |-> {},
                    nextEntityId |-> 0,
                    componentMap |-> AutoMapNew,
                    tagSet |-> AutoMapNew,
                    sharedComponentIterResult |-> <<>>,
                    onEntityCreatedCallbacks |-> <<>>,
                    onEntityRemovedCallbacks |-> <<>>,
                    onComponentAddedCallbacks |-> AutoMapNew,
                    onComponentRemovedCallbacks |-> AutoMapNew,
                    onComponentWithTagAddedCallbacks |-> AutoMapNew,
                    onComponentWithTagRemovedCallbacks |-> AutoMapNew],
         heap |-> <<>>,
         trace |-> <<>>,
         ret |-> returnsUndefined,
         outcome |-> "returned"])

RECURSIVE observeTypes(_, _)
observeTypes(st, types) ==
    IF types = {} THEN st
    ELSE LET c == CHOOSE x \in types : TRUE
         IN  observeTypes(onComponentRemoved(onComponentAdded(st, c, Observer), c, Observer),
                          types \ {c})

RECURSIVE observeTags(_, _)
observeTags(st, tags) ==
    IF tags = {} THEN st
    ELSE LET t == CHOOSE x \in tags : TRUE
         IN  observeTags(
                 onComponentWithTagRemoved(onComponentWithTagAdded(st, t, Observer), t, Observer),
                 tags \ {t})

\* a new World with the Observer subscribed to each of the six registries,
\* for every component class and every tag
observed ==
    observeTags(
        observeTypes(onEntityRemoved(onEntityCreated(constructor, Observer), Observer),
                     ComponentTypes),
        Tags)

\* callbacks the driver subscribes and unsubscribes while the World runs
Watchers == {2, 3}

\* callback f registered with each of the six registries, for every
\* component class and every tag
RECURSIVE subscribeTypes(_, _, _)
subscribeTypes(st, types, f) ==
    IF types = {} THEN st
    ELSE LET c == CHOOSE x \in types : TRUE
         IN  subscribeTypes(onComponentRemoved(onComponentAdded(st, c, f), c, f),
                            types \ {c}, f)

RECURSIVE subscribeTags(_, _, _)
subscribeTags(st, tags, f) ==
    IF tags = {} THEN st
    ELSE LET t == CHOOSE x \in tags : TRUE
         IN  subscribeTags(
                 onComponentWithTagRemoved(onComponentWithTagAdded(st, t, f), t, f),
                 tags \ {t}, f)

subscribeEverywhere(st, f) ==
    subscribeTags(
        subscribeTypes(onEntityRemoved(onEntityCreated(st, f), f), ComponentTypes, f),
        Tags, f)

\* every closure those registrations returned, called
RECURSIVE unsubscribeTypes(_, _, _)
unsubscribeTypes(st, types, f) ==
    IF types = {} THEN st
    ELSE LET c == CHOOSE x \in types : TRUE
         IN  unsubscribeTypes(
                 unsubscribeComponentRemoved(unsubscribeComponentAdded(st, c, f), c, f),
                 types \ {c}, f)

RECURSIVE unsubscribeTags(_, _, _)
unsubscribeTags(st, tags, f) ==
    IF tags = {} THEN st
    ELSE LET t == CHOOSE x \in tags : TRUE
         IN  unsubscribeTags(
                 unsubscribeComponentWithTagRemoved(
                     unsubscribeComponentWithTagAdded(st, t, f), t, f),
                 tags \ {t}, f)

unsubscribeEverywhere(st, f) ==
    unsubscribeTags(
        unsubscribeTypes(unsubscribeEntityRemoved(unsubscribeEntityCreated(st, f), f),
                         ComponentTypes, f),
        Tags, f)

\* Relationship objects no longer held by the component store are garbage
collect(st) ==
    LET store == componentStore(st, Relationship)
        held  == {store.components[i].id : i \in 1..Len(store.components)}
    IN  [r \in held |-> st.heap[r]]

\* the machine state a call starts from
current ==
    [world |-> world, heap |-> heap, trace |-> <<>>,
     ret |-> returnsUndefined, outcome |-> "returned"]

\* the machine state a call leaves behind
Leaves(st, op, args) ==
    /\ world' = st.world
    /\ heap' = collect(st)
    /\ trace' = st.trace
    /\ ret' = st.ret
    /\ outcome' = st.outcome
    /\ lastCall' = [op |-> op, args |-> args]
    /\ UNCHANGED <<sets, events, lifecycle, pool>>

\* the component stores hold in st what they hold now
sameStores(st) ==
    \A c \in ComponentTypes : componentStore(st, c) = componentStore(current, c)

\* a call of the driver other than next(): a generator is no longer quiet
\* when the call has changed a component store
Returns(st, op, args) ==
    /\ Leaves(st, op, args)
    /\ iterators' = [k \in DOMAIN iterators |->
                         [iterators[k] EXCEPT
                             !.quiet = @ /\ sameStores(st)]]

\* the driver makes its next call once it has taken the result of the last
\* one; a call that never returns leaves no driver to go on
noCall == [op |-> "none", args |-> <<>>]

Running == lastCall = noCall /\ outcome # "diverges"

\* a SparseSet of each implementation, and the ids a faithful set would hold
\* with their values
newSets == [swapPop |-> SparseSetNew, deletePop |-> SparseSetNew, present |-> <<>>]

Init ==
    /\ sets = newSets
    /\ events = subscribed
    /\ lifecycle = newLifecycle
    /\ pool = ObjectPool(1)
    /\ iterators = <<>>
    /\ world = observed.world
    /\ heap = observed.heap
    /\ trace = <<>>
    /\ ret = returnsUndefined
    /\ outcome = "returned"
    /\ lastCall = noCall

\* the driver takes what the call returned (or catches what it threw) and
\* goes on: the record of the call is dropped, the World stays as it is
Resume ==
    /\ lastCall # noCall
    /\ outcome # "diverges"
    /\ lastCall' = noCall
    /\ ret' = returnsUndefined
    /\ outcome' = "returned"
    /\ trace' = <<>>
    /\ UNCHANGED <<world, heap, sets, events, lifecycle, pool, iterators>>

CreateEntity(n) ==
    /\ Running
    /\ world.nextEntityId < n
    /\ Returns(createEntity(current), "createEntity", <<>>)

RemoveEntity(n) ==
    /\ Running
    /\ \E e \in EntityIds(n) : Returns(removeEntity(current, e), "removeEntity", <<e>>)

\* addComponent given a class, which it instantiates
AddComponentClass(n) ==
    /\ Running
    /\ \E e \in EntityIds(n), c \in UserTypes :
           Returns(addComponent(current, e, c), "addComponent", <<e, c>>)

\* addComponent given an instance
AddComponentInstance(n) ==
    /\ Running
    /\ \E e \in EntityIds(n), c \in UserInstances :
           Returns(addComponent(current, e, c), "addComponent", <<e, c>>)

RemoveComponent(n) ==
    /\ Running
    /\ \E e \in EntityIds(n), c \in UserTypes :
           Returns(removeComponent(current, e, c), "removeComponent", <<e, c>>)

\* it = world.componentIterator(...q): the driver holds the generator; seen
\* are the copies it takes of the tuples the generator yields, quiet tells
\* that no call has changed a component store since
ComponentIterator(n) ==
    /\ Running
    /\ Len(iterators) < n
    /\ \E q \in Queries :
           /\ iterators' = Append(iterators, [gen |-> componentIterator(q),
                                               seen |-> <<>>, quiet |-> TRUE])
           /\ Leaves(current, "componentIterator", <<q>>)

\* it.next() on a generator the driver holds; the driver copies the tuple
\* as soon as it has it
IteratorNext ==
    /\ Running
    /\ \E k \in DOMAIN iterators :
           LET r == iteratorNext(current, iterators[k].gen)
           IN  /\ iterators[k].gen.state # closed
               /\ iterators' = [iterators EXCEPT
                      ![k].gen = r.g,
                      ![k].seen = IF r.st.ret.value.done THEN @
                                  ELSE Append(@, r.st.ret.value.value)]
               /\ Leaves(r.st, "next", <<k, r.g.components>>)

\* it.next() on a generator that has ended
IteratorNextEnded ==
    /\ Running
    /\ \E k \in DOMAIN iterators :
           LET r == iteratorNext(current, iterators[k].gen)
           IN  /\ iterators[k].gen.state = closed
               /\ Leaves(r.st, "next", <<k, r.g.components>>)
               /\ UNCHANGED iterators

\* the driver lets go of the generators that have ended
DropIterators ==
    /\ Running
    /\ \E k \in DOMAIN iterators : iterators[k].gen.state = closed
    /\ iterators' = SelectSeq(iterators, LAMBDA it : it.gen.state # closed)
    /\ UNCHANGED <<worldVars, lastCall, sets, events, lifecycle, pool>>

ParentCall(n) ==
    /\ Running
    /\ \E p \in EntityIds(n), c \in EntityIds(n) :
           Returns(Parent(current, p, c), "parent", <<p, c>>)

\* parent(c, p) called on the return of a successful parent(p, c)
ParentBack ==
    /\ lastCall.op = "parent"
    /\ outcome = "returned"
    /\ ret.error = "none"
    /\ Returns(Parent(current, lastCall.args[2], lastCall.args[1]), "parent",
               <<lastCall.args[2], lastCall.args[1]>>)

UnparentCall(n) ==
    /\ Running
    /\ \E p \in EntityIds(n), c \in EntityIds(n) :
           Returns(Unparent(current, p, c), "unparent", <<p, c>>)

\* parent(p, c) with p allocated before c
ParentDown(n) ==
    /\ Running
    /\ \E p \in EntityIds(n), c \in EntityIds(n) :
           /\ p < c
           /\ Returns(Parent(current, p, c), "parent", <<p, c>>)

\* unparent(p, c) with p allocated before c
UnparentDown(n) ==
    /\ Running
    /\ \E p \in EntityIds(n), c \in EntityIds(n) :
           /\ p < c
           /\ Returns(Unparent(current, p, c), "unparent", <<p, c>>)

\* a callback not subscribed is subscribed to every registry
Subscribe ==
    /\ Running
    /\ \E f \in Watchers :
           /\ f \notin Range(world.onEntityCreatedCallbacks)
           /\ Returns(subscribeEverywhere(current, f), "subscribe", <<f>>)

\* every unsubscribe closure of a subscribed callback is called
Unsubscribe ==
    /\ Running
    /\ \E f \in Watchers :
           /\ f \in Range(world.onEntityCreatedCallbacks)
           /\ Returns(unsubscribeEverywhere(current, f), "unsubscribe", <<f>>)

\* the Retractor is registered as component-added callback of the classes A
\* and B
SubscribeRetractor ==
    /\ Running
    /\ Retractor \notin Range(AutoMapGet(world.onComponentAddedCallbacks, A, <<>>).val[A])
    /\ Returns(onComponentAdded(onComponentAdded(current, A, Retractor), B, Retractor),
               "onComponentAdded", <<Retractor>>)

\* a driver whose component-added callbacks may remove the component added
NextReentrant ==
    \/ Resume
    \/ CreateEntity(MaxEntities)
    \/ RemoveEntity(MaxEntities)
    \/ AddComponentClass(MaxEntities)
    \/ AddComponentInstance(MaxEntities)
    \/ RemoveComponent(MaxEntities)
    \/ SubscribeRetractor

SpecReentrant == Init /\ [][NextReentrant]_vars

\* the ActorSystem of the World is started
ActorSystemStartup ==
    /\ Running
    /\ ~actorSystemActive(current)
    /\ Returns(actorSystemStartup(current), "ActorSystem.startup", <<>>)

\* the ActorSystem of the World is shut down
ActorSystemShutdown ==
    /\ Running
    /\ actorSystemActive(current)
    /\ Returns(actorSystemShutdown(current), "ActorSystem.shutdown", <<>>)

\* a driver that adds and removes actor components while the ActorSystem is
\* started and shut down
NextActor ==
    \/ Resume
    \/ CreateEntity(MaxEntities)
    \/ RemoveEntity(MaxEntities)
    \/ AddComponentClass(MaxEntities)
    \/ AddComponentInstance(MaxEntities)
    \/ RemoveComponent(MaxEntities)
    \/ ActorSystemStartup
    \/ ActorSystemShutdown

SpecActor == Init /\ [][NextActor]_vars

\* a driver that creates and removes entities and components while callbacks
\* come and go
NextObservers ==
    \/ Resume
    \/ CreateEntity(MaxEntities)
    \/ RemoveEntity(MaxEntities)
    \/ AddComponentClass(MaxEntities)
    \/ RemoveComponent(MaxEntities)
    \/ Subscribe
    \/ Unsubscribe

SpecObservers == Init /\ [][NextObservers]_vars

\* a driver that creates and removes entities and components
Next ==
    \/ Resume
    \/ CreateEntity(MaxEntities)
    \/ RemoveEntity(MaxEntities)
    \/ AddComponentClass(MaxEntities)
    \/ AddComponentInstance(MaxEntities)
    \/ RemoveComponent(MaxEntities)

Spec == Init /\ [][Next]_vars

\* a driver that adds and removes components and runs queries over them
NextQuery ==
    \/ Resume
    \/ CreateEntity(MaxEntities)
    \/ AddComponentClass(MaxEntities)
    \/ RemoveComponent(MaxEntities)
    \/ ComponentIterator(1)
    \/ IteratorNext
    \/ IteratorNextEnded
    \/ DropIterators

SpecQuery == Init /\ [][NextQuery]_vars

\* the driver holds no generator
Idle == iterators = <<>>

\* a driver that fills stores with more entities than a query asks
\* components for, and then queries them
NextTuples ==
    \/ Resume
    \/ Idle /\ CreateEntity(MaxQueried)
    \/ Idle /\ AddComponentClass(MaxQueried)
    \/ ComponentIterator(1)
    \/ IteratorNext
    \/ DropIterators

SpecTuples == Init /\ [][NextTuples]_vars

\* a driver that fills stores and then runs queries, one inside the loop
\* over another
NextNestedQuery ==
    \/ Resume
    \/ Idle /\ CreateEntity(MaxEntities)
    \/ Idle /\ AddComponentClass(MaxEntities)
    \/ ComponentIterator(MaxIterators)
    \/ IteratorNext
    \/ DropIterators

SpecNestedQuery == Init /\ [][NextNestedQuery]_vars

\* a driver that builds and tears down entity hierarchies
NextHierarchy ==
    \/ Resume
    \/ CreateEntity(MaxHierarchy)
    \/ RemoveEntity(MaxHierarchy)
    \/ ParentCall(MaxHierarchy)
    \/ ParentBack
    \/ UnparentCall(MaxHierarchy)

SpecHierarchy == Init /\ [][NextHierarchy]_vars

\* a driver that uses every entity-targeted operation: it grows forests from
\* older to newer entities and attaches components to them
NextWorld ==
    \/ Resume
    \/ CreateEntity(MaxEntities)
    \/ RemoveEntity(MaxEntities)
    \/ AddComponentInstance(MaxEntities)
    \/ RemoveComponent(MaxEntities)
    \/ ParentDown(MaxEntities)
    \/ UnparentDown(MaxEntities)

SpecWorld == Init /\ [][NextWorld]_vars

----------------------------------------------------------------------------
(* A bare SparseSet under its driver *)

Ids == 0..MaxIds

\* the component values the driver stores
Values == {[ctor |-> A, id |-> 0], [ctor |-> A, id |-> 1]}

\* set.add(id, v) on both implementations
SparseAdd ==
    \E id \in Ids, v \in Values :
        /\ sets' = [swapPop   |-> SparseSetAdd(sets.swapPop, id, v),
                    deletePop |-> SparseSetAdd(sets.deletePop, id, v),
                    present   |-> IF id \in DOMAIN sets.present THEN sets.present
                                  ELSE (id :> v) @@ sets.present]
        /\ lastCall' = [op |-> "add", args |-> <<id, v>>]
        /\ UNCHANGED <<worldVars, events, lifecycle, pool, iterators>>

\* set.remove(id) on both implementations
SparseRemove ==
    \E id \in Ids :
        /\ sets' = [swapPop   |-> SparseSetRemove(sets.swapPop, id),
                    deletePop |-> SparseSetRemoveDeletePop(sets.deletePop, id),
                    present   |-> [e \in DOMAIN sets.present \ {id} |-> sets.present[e]]]
        /\ lastCall' = [op |-> "remove", args |-> <<id>>]
        /\ UNCHANGED <<worldVars, events, lifecycle, pool, iterators>>

\* set.clear() on both implementations
SparseClear ==
    /\ SparseSetSize(sets.swapPop) + SparseSetSize(sets.deletePop) > 0
    /\ sets' = [swapPop   |-> SparseSetClear(sets.swapPop),
                deletePop |-> SparseSetClear(sets.deletePop),
                present   |-> <<>>]
    /\ lastCall' = [op |-> "clear", args |-> <<>>]
    /\ UNCHANGED <<worldVars, events, lifecycle, pool, iterators>>

NextSparseSet ==
    \/ SparseAdd
    \/ SparseRemove
    \/ SparseClear

SpecSparseSet == Init /\ [][NextSparseSet]_vars

----------------------------------------------------------------------------
(* An EventQueue under its driver *)

\* the pushes the driver itself has made
driverPushes == {k \in 1..Len(events.log.pushes) : ~events.log.pushes[k].inside}

\* queue.push(event, payload) called by the driver
Push ==
    /\ Cardinality(driverPushes) < MaxPushes
    /\ \E event \in EventTypes :
           /\ events' = push(events, event, payloadOf(Len(events.log.pushes) + 1), FALSE)
           /\ lastCall' = [op |-> "push", args |-> <<event>>]
    /\ UNCHANGED <<worldVars, sets, lifecycle, pool, iterators>>

DispatchQueue ==
    /\ events.log.calls < MaxDispatches
    /\ events' = dispatchQueue(events)
    /\ lastCall' = [op |-> "dispatchQueue", args |-> <<>>]
    /\ UNCHANGED <<worldVars, sets, lifecycle, pool, iterators>>

Clear ==
    /\ events.log.clears < MaxClears
    /\ events' = clear(events)
    /\ lastCall' = [op |-> "clear", args |-> <<>>]
    /\ UNCHANGED <<worldVars, sets, lifecycle, pool, iterators>>

DispatchAndClear ==
    /\ events.log.calls < MaxDispatches
    /\ events' = dispatchAndClear(events)
    /\ lastCall' = [op |-> "dispatchAndClear", args |-> <<>>]
    /\ UNCHANGED <<worldVars, sets, lifecycle, pool, iterators>>

\* the subscriptions the driver makes and ends
Subscriptions == {<<EvA, Relay>>, <<EvA, RecorderA>>, <<EvB, RecorderB>>}

\* the subscription has changed once more
resubscribed(st) == [st EXCEPT !.log.changes = @ + 1]

\* queue.subscribe(event, listener) for a listener that is not subscribed
QueueSubscribe ==
    /\ events.log.changes < MaxResubscriptions
    /\ \E s \in Subscriptions :
           /\ s[2] \notin Range(AutoMapGet(events.q.listeners, s[1], <<>>).val[s[1]])
           /\ events' = resubscribed(subscribe(events, s[1], s[2]))
           /\ lastCall' = [op |-> "subscribe", args |-> s]
    /\ UNCHANGED <<worldVars, sets, lifecycle, pool, iterators>>

\* queue.unsubscribe(event, listener)
QueueUnsubscribe ==
    /\ events.log.changes < MaxResubscriptions
    /\ \E s \in Subscriptions :
           /\ s[2] \in Range(AutoMapGet(events.q.listeners, s[1], <<>>).val[s[1]])
           /\ events' = resubscribed(unsubscribe(events, s[1], s[2]))
           /\ lastCall' = [op |-> "unsubscribe", args |-> s]
    /\ UNCHANGED <<worldVars, sets, lifecycle, pool, iterators>>

\* off(), for a function off that subscribe has returned
QueueOff ==
    /\ events.log.changes < MaxResubscriptions
    /\ \E off \in events.log.offs :
           /\ off.listener \in Range(AutoMapGet(events.q.listeners, off.type, <<>>).val[off.type])
           /\ events' = resubscribed(callUnsubscriber(events, off))
           /\ lastCall' = [op |-> "off", args |-> <<off.type, off.listener>>]
    /\ UNCHANGED <<worldVars, sets, lifecycle, pool, iterators>>

\* a driver that uses every method of the queue
NextQueue ==
    \/ Push
    \/ DispatchQueue
    \/ Clear
    \/ QueueSubscribe
    \/ QueueUnsubscribe
    \/ QueueOff

SpecQueue == Init /\ [][NextQueue]_vars

\* a driver that pushes and, once per tick, calls dispatchAndClear
NextTick ==
    \/ Push
    \/ DispatchAndClear
    \/ QueueSubscribe
    \/ QueueUnsubscribe
    \/ QueueOff

SpecTick == Init /\ [][NextTick]_vars

----------------------------------------------------------------------------
(* The system lifecycle under its driver: World calls, and whenStarted and *)
(* whenShutdown calls on the Systems constructed so far                    *)

\* the call has been made: st is the state it leaves
Called(st, op, args) ==
    /\ lifecycle' = [st EXCEPT !.calls = @ + 1]
    /\ lastCall' = [op |-> op, args |-> args]
    /\ UNCHANGED <<worldVars, sets, events, pool, iterators>>

Callable == lifecycle.calls < MaxCalls /\ lifecycle.outcome = "returned"

AddSystem ==
    /\ Callable
    /\ Len(lifecycle.instances) < MaxSystems
    /\ \E system \in SystemTypes :
           Called(addSystem(lifecycle, system), "addSystem", <<system>>)

RemoveSystem ==
    /\ Callable
    /\ \E system \in SystemTypes \cup {System} :
           Called(removeSystem(lifecycle, system), "removeSystem", <<system>>)

Startup ==
    /\ Callable
    /\ Called(startup(lifecycle), "startup", <<>>)

Update ==
    /\ Callable
    /\ Called(update(lifecycle), "update", <<>>)

Shutdown ==
    /\ Callable
    /\ Called(shutdown(lifecycle), "shutdown", <<>>)

\* system.whenStarted(c), for a callback the System does not hold yet
WhenStarted ==
    /\ Callable
    /\ \E i \in 1..Len(lifecycle.instances) :
           \E c \in {watch, acquire} :
               /\ c \notin Range(lifecycle.instances[i].startedCallbacks)
               /\ Called(whenStarted(lifecycle, i, <<c>>), "whenStarted", <<i, c>>)

\* system.whenShutdown(c)
WhenShutdown ==
    /\ Callable
    /\ \E i \in 1..Len(lifecycle.instances) :
           Called(whenShutdown(lifecycle, i, <<cleanup>>), "whenShutdown", <<i, cleanup>>)

\* another World begins an operation, binding the slot to itself: the calls
\* that follow are made from inside that operation
EnterOtherWorld ==
    /\ Callable
    /\ lifecycle.current = noWorld
    /\ Called([lifecycle EXCEPT !.current = otherWorld], "enterOtherWorld", <<>>)

\* the operation of the other World ends and restores the slot
LeaveOtherWorld ==
    /\ Callable
    /\ lifecycle.current = otherWorld
    /\ Called([lifecycle EXCEPT !.current = noWorld], "leaveOtherWorld", <<>>)

\* world.addSystem(SpawnerSystem)
AddSpawner ==
    /\ Callable
    /\ Len(lifecycle.instances) < MaxSystems
    /\ Called(addSystem(lifecycle, SpawnerSystem), "addSystem", <<SpawnerSystem>>)

NextLifecycle == AddSystem \/ RemoveSystem \/ Startup \/ Update \/ Shutdown

SpecLifecycle == Init /\ [][NextLifecycle]_vars

NextSlot ==
    \/ AddSystem \/ Startup \/ Update \/ Shutdown
    \/ EnterOtherWorld \/ LeaveOtherWorld

SpecSlot == Init /\ [][NextSlot]_vars

\* a call on the pool: the pool it leaves, with the call counted
Pooled(p, op, args) ==
    /\ pool' = [p EXCEPT !.calls = pool.calls + 1]
    /\ lastCall' = [op |-> op, args |-> args]
    /\ UNCHANGED <<worldVars, sets, events, lifecycle, iterators>>

\* pool = new ObjectPool({ initialSize, createObject, resetObject })
NewObjectPool ==
    /\ pool.calls < MaxPoolCalls
    /\ \E initialSize \in 0..MaxInitialSize :
           Pooled(ObjectPool(initialSize), "ObjectPool", <<initialSize>>)

\* pool.alloc()
Alloc ==
    /\ pool.calls < MaxPoolCalls
    /\ Pooled(alloc(pool), "alloc", <<>>)

\* pool.free(object), for an object the pool returned or holds in reserve
Free ==
    /\ pool.calls < MaxPoolCalls
    /\ \E object \in Range(pool.active) \cup Range(pool.inactive) :
           Pooled(free(pool, object), "free", <<object>>)

\* pool.freeAll()
FreeAll ==
    /\ pool.calls < MaxPoolCalls
    /\ Pooled(freeAll(pool), "freeAll", <<>>)

NextPool == NewObjectPool \/ Alloc \/ Free \/ FreeAll

SpecPool == Init /\ [][NextPool]_vars

\* a driver whose Systems may register Systems from their startup()
NextNested == AddSystem \/ AddSpawner \/ Startup \/ Update \/ Shutdown

SpecNested == Init /\ [][NextNested]_vars

NextCallbacks == AddSystem \/ Startup \/ Shutdown \/ WhenStarted \/ WhenShutdown

SpecCallbacks == Init /\ [][NextCallbacks]_vars

----------------------------------------------------------------------------
(* Claims *)

\* the machine state after the step
after == current'

\* the instance addComponent stores for its second argument
stored(componentOrCtor) ==
    IF isConstructor(componentOrCtor) THEN make(componentOrCtor) ELSE componentOrCtor

\* the call just made may change the component of class T held by e
Replaces(e, T) ==
    \/ lastCall'.op = "addComponent" /\ lastCall'.args[1] = e
           /\ constructorOf(stored(lastCall'.args[2])) = T
    \/ lastCall'.op = "removeComponent" /\ lastCall'.args = <<e, T>>
    \/ lastCall'.op = "removeEntity" /\ lastCall'.args = <<e>>

\* C1: after a successful addComponent(e, v), getComponent(e, T) is v itself,
\* and it stays v across every call other than an addComponent of class T on
\* e, removeComponent(e, T) and removeEntity(e)
C1_AddThenGet ==
    [][ /\ (lastCall'.op = "addComponent" /\ ret'.error = "none") =>
               getComponent(after, lastCall'.args[1],
                            constructorOf(stored(lastCall'.args[2])))
                   = stored(lastCall'.args[2])
        /\ \A e \in EntityIds(MaxEntities), T \in UserTypes :
               (getComponent(current, e, T) # null /\ ~Replaces(e, T)) =>
                   getComponent(after, e, T) = getComponent(current, e, T)
      ]_vars

\* an addComponent has stored an instance on an entity while another entity
\* holds a different instance of the same class
C1_Witness ==
    /\ lastCall.op = "addComponent"
    /\ ret.error = "none"
    /\ getComponent(current, 1, A) = [ctor |-> A, id |-> 1]
    /\ getComponent(current, 0, A) = make(A)

\* the component-added and component-removed callbacks among those fired
componentEvents(tr) ==
    SelectSeq(tr, LAMBDA x : x.cb \in {"componentRemoved", "componentAdded"})

\* C2: addComponent(e, v2) on an entity that holds a v1 of the same class T
\* fires one component-removed(T) then one component-added(v2), and leaves
\* v2 as the component of e, in one entry of the store of T
C2_ReplaceFiresPair ==
    [][ (/\ lastCall'.op = "addComponent"
         /\ ret'.error = "none"
         /\ hasComponent(current, lastCall'.args[1],
                         constructorOf(stored(lastCall'.args[2])))) =>
        LET e  == lastCall'.args[1]
            v2 == stored(lastCall'.args[2])
            T  == constructorOf(v2)
            ev == componentEvents(trace')
            dense == componentStore(after, T).dense
        IN  /\ Len(ev) = 2
            /\ ev[1].cb = "componentRemoved" /\ ev[1].entity = e /\ ev[1].arg = T
            /\ ev[2].cb = "componentAdded" /\ ev[2].entity = e /\ ev[2].arg = v2
            /\ getComponent(after, e, T) = v2
            /\ Cardinality({i \in 1..Len(dense) : dense[i] = e}) = 1
      ]_vars

\* an addComponent has replaced one instance by a different one
C2_Witness ==
    /\ lastCall.op = "addComponent"
    /\ lastCall.args = <<1, [ctor |-> A, id |-> 1]>>
    /\ Len(componentEvents(trace)) = 2
    /\ getComponent(current, 1, A) = [ctor |-> A, id |-> 1]

\* C3: a complete iteration of componentIterator(a, b), with no call that
\* changes a component store since the generator was made, has yielded each
\* entity that has both components exactly once, and no other entity
C3_IteratorYieldsJoin ==
    \A k \in DOMAIN iterators :
        LET it   == iterators[k]
            q    == it.gen.components
            both == {e \in EntityIds(MaxEntities) :
                        hasComponent(current, e, q[1]) /\ hasComponent(current, e, q[2])}
        IN  (it.gen.state = closed /\ it.quiet /\ Len(q) = 2) =>
                /\ {it.seen[i][1] : i \in 1..Len(it.seen)} = both
                /\ Len(it.seen) = Cardinality(both)

\* an undisturbed componentIterator(A, B) has ended after yielding one
\* entity out of a larger store of A and a smaller store of B
C3_Witness ==
    /\ lastCall.op = "next"
    /\ \E k \in DOMAIN iterators :
           /\ iterators[k].gen.components = <<A, B>>
           /\ iterators[k].gen.state = closed
           /\ iterators[k].quiet
           /\ Len(iterators[k].seen) = 1
    /\ SparseSetSize(componentStore(current, A)) = 2
    /\ SparseSetSize(componentStore(current, B)) = 1

\* C4: the id createEntity returns is live on return; the id given to a
\* removeEntity that returns is not live on return; an id that was allocated
\* and is not live is never live again
C4_EntityExistsLifecycle ==
    [][ /\ lastCall'.op = "createEntity" => entityExists(after, ret'.value)
        /\ (lastCall'.op = "removeEntity" /\ outcome' = "returned") =>
               ~entityExists(after, lastCall'.args[1])
        /\ \A e \in 0..(world.nextEntityId - 1) :
               ~entityExists(current, e) => ~entityExists(after, e)
      ]_vars

\* removeEntity has removed an entity createEntity had returned
C4_Witness ==
    /\ lastCall = [op |-> "removeEntity", args |-> <<1>>]
    /\ ret.error = "none"
    /\ ~entityExists(current, 1)
    /\ world.nextEntityId = 2

\* C5: after a successful removeEntity(e), e has no component of any class
\* and no entry in any tag store
C5_RemoveEntityClearsComponents ==
    [][ (lastCall'.op = "removeEntity" /\ outcome' = "returned" /\ ret'.error = "none") =>
        \A T \in ComponentTypes :
            /\ ~hasComponent(after, lastCall'.args[1], T)
            /\ getComponent(after, lastCall'.args[1], T) = null
            /\ \A tag \in Tags : tagSetGet(after, tag, lastCall'.args[1], T) = undefined
      ]_vars

\* removeEntity has removed an entity that held a tagged component
C5_Witness ==
    /\ lastCall.op = "removeEntity"
    /\ ret.error = "none"
    /\ \E i \in 1..Len(trace) :
           trace[i].cb = "tagRemoved" /\ trace[i].entity = lastCall.args[1]

\* Relationship.children of an entity: empty without a Relationship
childrenOf(st, e) ==
    LET relationship == getComponent(st, e, Relationship)
    IN  IF relationship = null THEN {} ELSE Range(st.heap[relationship.id]._children)

\* Relationship.parent of an entity: null without a Relationship
parentOf(st, e) ==
    LET relationship == getComponent(st, e, Relationship)
    IN  IF relationship = null THEN <<>> ELSE st.heap[relationship.id]._parent

\* the live entities reachable from the entities of from through child edges
RECURSIVE reachable(_, _, _)
reachable(st, from, found) ==
    LET next == {d \in UNION {childrenOf(st, x) : x \in from} : entityExists(st, d)} \ found
    IN  IF next = {} THEN found ELSE reachable(st, next, found \cup next)

descendants(st, e) == reachable(st, {e}, {})

\* the entities met by following parent pointers from e
RECURSIVE ancestors(_, _, _)
ancestors(st, pointer, found) ==
    IF pointer = <<>> \/ pointer[1] \in found THEN found
    ELSE ancestors(st, parentOf(st, pointer[1]), found \cup {pointer[1]})

\* the positions of the entity-removed callbacks for an entity in a trace
removals(tr, e) ==
    {i \in 1..Len(tr) : tr[i].cb = "entityRemoved" /\ tr[i].entity = e}

\* C6: a removeEntity(e) that returns has destroyed e and every entity that
\* was reachable from e through child edges, and each descendant's
\* entity-removed callbacks have fired, and the descendant has been deleted,
\* before e's own entity-removed callbacks fire
C6_RemoveEntityDestroysDescendants ==
    [][ (/\ lastCall'.op = "removeEntity"
         /\ outcome' = "returned"
         /\ entityExists(current, lastCall'.args[1])) =>
        LET e    == lastCall'.args[1]
            desc == descendants(current, e) \ {e}
        IN  /\ ~entityExists(after, e)
            /\ \A d \in desc :
                   /\ ~entityExists(after, d)
                   /\ removals(trace', d) # {}
                   /\ \A j \in removals(trace', e) :
                          /\ \A i \in removals(trace', d) : i < j
                          /\ d \notin trace'[j].entities
      ]_vars

\* C7: parent(c, p) called after a successful parent(p, c) on two distinct
\* entities returns the CircularRelationship error and leaves the
\* Relationship of both entities as it was
C7_ParentBackIsCircular ==
    [][ (/\ lastCall.op = "parent"
         /\ outcome = "returned"
         /\ ret.error = "none"
         /\ lastCall.args[1] # lastCall.args[2]
         /\ lastCall'.op = "parent"
         /\ lastCall'.args = <<lastCall.args[2], lastCall.args[1]>>) =>
        /\ outcome' = "returned"
        /\ ret' = circularRelationshipError
        /\ heap'[lastCall.args[1]] = heap[lastCall.args[1]]
        /\ heap'[lastCall.args[2]] = heap[lastCall.args[2]]
      ]_vars

\* C8: following parent pointers from a live entity never returns to that
\* entity, and no entity is its own parent
C8_ParentGraphAcyclic ==
    \A e \in world.entities : e \notin ancestors(current, parentOf(current, e), {})

\* C9: a successful parent(p2, c) on a child c whose parent is a different
\* live entity p1 takes c out of p1's children, puts it into p2's children
\* and sets c's parent to p2
C9_ReparentLeavesOldParent ==
    [][ (/\ lastCall'.op = "parent"
         /\ outcome' = "returned"
         /\ ret'.error = "none"
         /\ parentOf(current, lastCall'.args[2]) # <<>>
         /\ parentOf(current, lastCall'.args[2]) # <<lastCall'.args[1]>>
         /\ parentOf(current, lastCall'.args[2]) # <<lastCall'.args[2]>>
         /\ entityExists(current, parentOf(current, lastCall'.args[2])[1])) =>
        LET p2 == lastCall'.args[1]
            c  == lastCall'.args[2]
            p1 == parentOf(current, c)[1]
        IN  /\ c \notin childrenOf(after, p1)
            /\ c \in childrenOf(after, p2)
            /\ parentOf(after, c) = <<p2>>
      ]_vars

\* the entity ids a call targets
targets(call) ==
    IF call.op \in {"parent", "unparent"} THEN {call.args[1], call.args[2]}
    ELSE IF call.op \in {"removeEntity", "addComponent", "removeComponent"}
    THEN {call.args[1]}
    ELSE {}

\* C10: removeEntity, addComponent, removeComponent, parent and unparent
\* given an id that is not live return the EntityDoesNotExist error value,
\* fire no callback and leave the live-entity set, the component stores, the
\* tag stores and the Relationships as they were
C10_DeadEntityIsRejected ==
    [][ (\E e \in targets(lastCall') : ~entityExists(current, e)) =>
        /\ outcome' = "returned"
        /\ ret' = entityDoesNotExistError
        /\ trace' = <<>>
        /\ world'.entities = world.entities
        /\ world'.componentMap = world.componentMap
        /\ world'.tagSet = world.tagSet
        /\ heap' = heap
      ]_vars

\* unparent has been refused for a removed child while the World holds a
\* component and a Relationship
C10_Witness ==
    /\ lastCall = [op |-> "unparent", args |-> <<0, 1>>]
    /\ ret = entityDoesNotExistError
    /\ ~entityExists(current, 1)
    /\ hasComponent(current, 0, A)
    /\ hasComponent(current, 0, Relationship)

\* has and size of a SparseSet agree with the ids added and not removed
matchesNetEffect(s) ==
    /\ \A id \in Ids : SparseSetHas(s, id) <=> id \in DOMAIN sets.present
    /\ SparseSetSize(s) = Cardinality(DOMAIN sets.present)

\* C11: after every add and remove call on a SparseSet, of either
\* implementation, has(id) is true exactly for the ids added and not removed
\* since, and size is the number of those ids
C11_HasMatchesNetEffect ==
    matchesNetEffect(sets.swapPop) /\ matchesNetEffect(sets.deletePop)

\* C11 for the swap-and-pop implementation alone
C11_SwapPopMatchesNetEffect == matchesNetEffect(sets.swapPop)

\* remove(e) of the id in the last dense slot of a set of two or more ids
\* takes only e away
removesOnlyLast(s, after_s, e) ==
    (SparseSetSize(s) >= 2 /\ s.dense[Len(s.dense)] = e) =>
        /\ SparseSetSize(after_s) = SparseSetSize(s) - 1
        /\ ~SparseSetHas(after_s, e)
        /\ \A id \in Ids \ {e} :
               SparseSetHas(s, id) =>
                   SparseSetHas(after_s, id) /\ SparseSetGet(after_s, id) = SparseSetGet(s, id)

\* C12: in a SparseSet of two or more ids, of either implementation,
\* remove(e) for the id e in the last dense slot removes only e: every other
\* id keeps its value and size decreases by one
C12_RemoveLastKeepsOthers ==
    [][ lastCall'.op = "remove" =>
        /\ removesOnlyLast(sets.swapPop, sets'.swapPop, lastCall'.args[1])
        /\ removesOnlyLast(sets.deletePop, sets'.deletePop, lastCall'.args[1])
      ]_vars

\* C12 for the swap-and-pop implementation alone
C12_SwapPopRemoveLastKeepsOthers ==
    [][ lastCall'.op = "remove" =>
        removesOnlyLast(sets.swapPop, sets'.swapPop, lastCall'.args[1])
      ]_vars

\* the listeners subscribed to an event
listenersOf(q, event) ==
    IF AutoMapHas(q.listeners, event) THEN Range(q.listeners.val[event]) ELSE {}

\* the listener calls dispatchQueue call number n made, in order
callDeliveries(log, n) ==
    LET RECURSIVE pick(_)
        pick(k) ==
            IF k = 0 THEN <<>>
            ELSE IF log.deliveries[k].call = n
            THEN Append(pick(k - 1), <<log.deliveries[k].listener,
                                       log.deliveries[k].event,
                                       log.deliveries[k].payload>>)
            ELSE pick(k - 1)
    IN  pick(Len(log.deliveries))

\* C13: a dispatchQueue call that follows a dispatchQueue call, with no push
\* or clear in between, leaves the front buffer as it was and calls each
\* subscribed listener once more with every event of the front buffer, as
\* the first call did
C13_DispatchDoesNotConsume ==
    [][ (lastCall.op = "dispatchQueue" /\ lastCall'.op = "dispatchQueue") =>
        /\ events'.q.queue = events.q.queue
        /\ queueIterator(events'.q) = queueIterator(events.q)
        /\ callDeliveries(events'.log, events'.log.calls)
               = callDeliveries(events.log, events.log.calls)
        /\ \A k \in 1..Len(queueIterator(events.q)) :
               \A l \in listenersOf(events.q, queueIterator(events.q)[k][1]) :
                   \E i \in 1..Len(events'.log.deliveries) :
                       /\ events'.log.deliveries[i].call = events'.log.calls
                       /\ events'.log.deliveries[i].listener = l
                       /\ events'.log.deliveries[i].payload = queueIterator(events.q)[k][2]
      ]_vars

\* a second dispatchQueue has called RecorderB again with the event the
\* driver pushed first
C13_Witness ==
    /\ lastCall.op = "dispatchQueue"
    /\ events.log.calls = 2
    /\ events.log.clears = 0
    /\ callDeliveries(events.log, 1) = << <<RecorderB, EvB, payloadOf(1)>> >>
    /\ callDeliveries(events.log, 2) = << <<RecorderB, EvB, payloadOf(1)>> >>
    /\ queueIterator(events.q) = << <<EvB, payloadOf(1)>> >>

\* the first dispatchQueue call begun after the clear that follows push u,
\* as <<its number>>, or <<>> when there is none yet
firstCallAfterClear(log, u) ==
    LET later == {n \in 1..Len(log.at) : n > u.call /\ log.at[n] > u.clears}
    IN  IF later = {} THEN <<>>
        ELSE <<CHOOSE n \in later : \A m \in later : n <= m>>

\* the listener calls made with the payload of push u
deliveriesOf(log, u) ==
    {i \in 1..Len(log.deliveries) : log.deliveries[i].payload = u.payload}

\* the listeners that were subscribed to an event when dispatchQueue call
\* number n began
heardBy(log, n, event) ==
    IF event \in DOMAIN log.heard[n].val THEN Range(log.heard[n].val[event]) ELSE {}

\* the listener calls made for listener l with the payload of push u
deliveriesTo(log, l, u) ==
    {i \in deliveriesOf(log, u) : log.deliveries[i].listener = l}

\* the pushes listeners made
insidePushes(log) == {k \in 1..Len(log.pushes) : log.pushes[k].inside}

\* C14, as stated: an event pushed by a listener is delivered neither by the
\* running dispatchQueue nor by any dispatchQueue before the next clear, and
\* it is delivered by the first dispatchQueue that follows the next clear,
\* to every listener subscribed to it when that dispatchQueue begins
C14_DeliveredAfterNextClear ==
    \A k \in insidePushes(events.log) :
        LET u == events.log.pushes[k]
            first == firstCallAfterClear(events.log, u)
        IN  /\ \A i \in deliveriesOf(events.log, u) :
                   events.log.deliveries[i].clears > u.clears
            /\ first # <<>> =>
                   \A l \in heardBy(events.log, first[1], u.event) :
                       \E i \in deliveriesTo(events.log, l, u) :
                           events.log.deliveries[i].call = first[1]

\* C14, amended: the first dispatchQueue that follows the next clear
\* delivers the event when no second clear comes before that dispatchQueue
C14_DeliveredAfterNextClearAlone ==
    \A k \in insidePushes(events.log) :
        LET u == events.log.pushes[k]
            first == firstCallAfterClear(events.log, u)
        IN  /\ \A i \in deliveriesOf(events.log, u) :
                   events.log.deliveries[i].clears > u.clears
            /\ (first # <<>> /\ events.log.at[first[1]] = u.clears + 1) =>
                   \A l \in heardBy(events.log, first[1], u.event) :
                       \E i \in deliveriesTo(events.log, l, u) :
                           events.log.deliveries[i].call = first[1]

\* the event Relay pushed during the first dispatchQueue has been delivered
\* to RecorderB by the dispatchQueue after the clear, and by no other
C14_Witness ==
    /\ events.log.calls = 2
    /\ lastCall.op = "dispatchQueue"
    /\ \E k \in insidePushes(events.log) :
           /\ events.log.pushes[k].call = 1
           /\ events.log.at[2] = 1
           /\ \E i \in deliveriesOf(events.log, events.log.pushes[k]) :
                  /\ events.log.deliveries[i].call = 2
                  /\ events.log.deliveries[i].listener = RecorderB

\* the last push the log holds
lastPush(log) == log.pushes[Len(log.pushes)]

\* C15: a push made while no dispatchQueue is running is appended to the
\* front buffer and iteration shows it at once, the dispatchQueue call that
\* comes next delivers it to every subscribed listener, and only the pushes
\* listeners make go to the back buffer
C15_OutsidePushGoesToFront ==
    [][ /\ lastCall'.op = "push" =>
            LET u == lastPush(events'.log)
            IN  /\ ~u.inside
                /\ events'.q.queue = events.q.queue \o <<u.event, u.payload>>
                /\ events'.q.nextQueue = events.q.nextQueue
                /\ queueIterator(events'.q)
                       = Append(queueIterator(events.q), <<u.event, u.payload>>)
        /\ (lastCall.op = "push" /\ lastCall'.op = "dispatchQueue") =>
            LET u == lastPush(events.log)
            IN  \A l \in listenersOf(events.q, u.event) :
                    <<l, u.event, u.payload>>
                        \in Range(callDeliveries(events'.log, events'.log.calls))
        /\ \A k \in 1..Len(events'.log.pushes) :
               events'.log.pushes[k].front = ~events'.log.pushes[k].inside
      ]_vars

\* C16: when push and dispatchAndClear are the only calls that touch the
\* buffers, each pushed event reaches each listener subscribed at the
\* dispatchAndClear that follows the push (for a push a listener makes: the
\* one after the running dispatchAndClear) exactly once, in that
\* dispatchAndClear, it reaches nobody else and at no other time, and a
\* listener receives events in push order
C16_TickDeliversOnceInOrder ==
    /\ \A k \in 1..Len(events.log.pushes) :
           LET u == events.log.pushes[k]
           IN  IF events.log.calls > u.call
               THEN /\ \A l \in heardBy(events.log, u.call + 1, u.event) :
                           Cardinality(deliveriesTo(events.log, l, u)) = 1
                    /\ \A i \in deliveriesOf(events.log, u) :
                           /\ events.log.deliveries[i].call = u.call + 1
                           /\ events.log.deliveries[i].listener
                                  \in heardBy(events.log, u.call + 1, u.event)
               ELSE deliveriesOf(events.log, u) = {}
    /\ \A i, j \in 1..Len(events.log.deliveries) :
           (/\ i < j
            /\ events.log.deliveries[i].listener = events.log.deliveries[j].listener)
           => events.log.deliveries[i].payload.payload
                  < events.log.deliveries[j].payload.payload
    /\ \A i \in 1..Len(events.log.deliveries) :
           \E k \in 1..Len(events.log.pushes) :
               /\ events.log.pushes[k].payload = events.log.deliveries[i].payload
               /\ events.log.pushes[k].event = events.log.deliveries[i].event
    /\ events.q.nextQueue = <<>>

\* an event the driver pushed after a first dispatchAndClear and an event
\* Relay pushed during it have both reached RecorderB in the second
C16_Witness ==
    /\ lastCall.op = "dispatchAndClear"
    /\ events.log.calls >= 2
    /\ \E k, m \in 1..Len(events.log.pushes) :
           /\ events.log.pushes[k].inside
           /\ ~events.log.pushes[m].inside
           /\ events.log.pushes[k].call = 1
           /\ events.log.pushes[m].call = 1
           /\ deliveriesTo(events.log, RecorderB, events.log.pushes[k]) # {}
           /\ deliveriesTo(events.log, RecorderB, events.log.pushes[m]) # {}

\* the last entry of the lifecycle log
lastNote(st) == st.log[Len(st.log)]

\* C17: World.startup() on an active World, and World.update() or
\* World.shutdown() on an inactive World, return without changing the active
\* flag of the World, the registered Systems or their state, and without
\* invoking any hook or callback
C17_WrongStateCallsAreNoOps ==
    [][ (\/ lastCall'.op = "startup" /\ lifecycle.active
         \/ lastCall'.op \in {"update", "shutdown"} /\ ~lifecycle.active) =>
        /\ lifecycle'.active = lifecycle.active
        /\ lifecycle'.log = lifecycle.log
        /\ lifecycle'.instances = lifecycle.instances
        /\ lifecycle'.systems = lifecycle.systems
        /\ lifecycle'.systemsIndexedByType = lifecycle.systemsIndexedByType
        /\ lifecycle'.outcome = "returned"
      ]_vars

\* startup() has just been called on a World that had started, updated its
\* System and not been called since
C17_Witness ==
    /\ lastCall.op = "startup"
    /\ lifecycle.active
    /\ lifecycle.systems # <<>>
    /\ lifecycle.log # <<>>
    /\ lastNote(lifecycle).kind = "update"
    /\ \A i \in Range(lifecycle.systems) : lifecycle.instances[i].activations = 1

\* C18: addSystem registers a new System; on an active World its startup
\* transition has run when addSystem returns and the System is active, on an
\* inactive World nothing runs and the System is inactive; an inactive
\* System becomes active only in World.startup(), which activates every
\* registered System
C18_AddSystemStartsOnActiveWorld ==
    [][ /\ lastCall'.op = "addSystem" =>
            LET n == Len(lifecycle'.instances)
            IN  /\ n = Len(lifecycle.instances) + 1
                /\ n \in Range(lifecycle'.systems)
                /\ lifecycle'.systemsIndexedByType[lastCall'.args[1]] = n
                /\ lifecycle'.instances[n].ctor = lastCall'.args[1]
                /\ lifecycle'.instances[n].active = lifecycle.active
                /\ lifecycle.active =>
                       /\ lifecycle'.instances[n].activations = 1
                       /\ \E p \in Len(lifecycle.log) + 1 .. Len(lifecycle'.log) :
                              /\ lifecycle'.log[p].kind = "startup"
                              /\ lifecycle'.log[p].system = n
                              /\ lifecycle'.log[p].active
                /\ ~lifecycle.active => lifecycle'.log = lifecycle.log
        /\ \A i \in 1..Len(lifecycle.instances) :
               (~lifecycle.instances[i].active /\ lifecycle'.instances[i].active)
                   => lastCall'.op = "startup"
        /\ (lastCall'.op = "startup" /\ ~lifecycle.active) =>
               \A i \in Range(lifecycle.systems) : lifecycle'.instances[i].active
      ]_vars

\* a second System has been added to a started World and its startup() has
\* run, while the first was started by World.startup()
C18_Witness ==
    /\ lastCall.op = "addSystem"
    /\ lifecycle.active
    /\ Len(lifecycle.instances) = 2
    /\ lifecycle.instances[1].active
    /\ lifecycle.instances[2].active
    /\ lastNote(lifecycle).system = 2
    /\ \E p \in DOMAIN lifecycle.log :
           /\ lifecycle.log[p].kind = "startup"
           /\ lifecycle.log[p].system = 2
           /\ lifecycle.log[p].from = "__runStartup"

\* the entries of the log of the given kind for System i and function c
notes(st, kind, i, c) ==
    {p \in DOMAIN st.log : /\ st.log[p].kind = kind
                           /\ st.log[p].system = i
                           /\ st.log[p].fn = c}

\* the runs of shutdown callback c of System i in its d-th deactivation
stoppedIn(st, i, c, d) ==
    {p \in notes(st, "stopped", i, c) : st.log[p].deactivation = d}

\* the calls of the user-defined shutdown() the d-th deactivation of System
\* i made
shutdownIn(st, i, d) ==
    {r \in notes(st, "shutdown", i, hook) :
        st.log[r].from = "__runShutdown" /\ st.log[r].deactivation = d}

\* C19: a callback queued with whenShutdown, or returned by a whenStarted
\* callback, runs exactly once in the next deactivation of its System, with
\* the System already inactive and before the user-defined shutdown(), and
\* every run of a shutdown callback answers a queueing made since the
\* deactivation before
C19_ShutdownCallbacksAreOneShot ==
    /\ \A q \in DOMAIN lifecycle.log :
           lifecycle.log[q].kind = "queued" =>
               LET i == lifecycle.log[q].system
                   c == lifecycle.log[q].fn
                   d == lifecycle.log[q].deactivation + 1
               IN  /\ Cardinality(stoppedIn(lifecycle, i, c, d))
                          = IF lifecycle.instances[i].deactivations >= d THEN 1 ELSE 0
                   /\ \A p \in stoppedIn(lifecycle, i, c, d) :
                          /\ p > q
                          /\ ~lifecycle.log[p].active
                          /\ shutdownIn(lifecycle, i, d) # {}
                          /\ \A r \in shutdownIn(lifecycle, i, d) : r > p
    /\ \A p \in DOMAIN lifecycle.log :
           lifecycle.log[p].kind = "stopped" =>
               \E q \in notes(lifecycle, "queued", lifecycle.log[p].system,
                              lifecycle.log[p].fn) :
                   /\ q < p
                   /\ lifecycle.log[q].deactivation + 1 = lifecycle.log[p].deactivation

\* a System has been deactivated twice; a closure its startup() queued with
\* whenShutdown and a closure a whenStarted callback returned ran in the
\* first deactivation and not in the second
C19_Witness ==
    \E i \in 1..Len(lifecycle.instances) :
        /\ lifecycle.instances[i].deactivations = 2
        /\ \E p, q \in DOMAIN lifecycle.log :
               /\ lifecycle.log[p].fn.fn = "off"
               /\ lifecycle.log[q].fn.fn = "release"
               /\ stoppedIn(lifecycle, i, lifecycle.log[p].fn, 1) # {}
               /\ stoppedIn(lifecycle, i, lifecycle.log[q].fn, 1) # {}
               /\ stoppedIn(lifecycle, i, lifecycle.log[p].fn, 2) = {}
               /\ stoppedIn(lifecycle, i, lifecycle.log[q].fn, 2) = {}

\* the calls of whenStarted callback c of System i in its a-th activation
startedIn(st, i, c, a) ==
    {p \in notes(st, "started", i, c) : st.log[p].activation = a}

\* whether c was registered with System i before its a-th activation ended
registeredFor(st, i, c, a) ==
    \E q \in notes(st, "whenStarted", i, c) :
        \/ st.log[q].activation < a
        \/ st.log[q].activation = a /\ st.log[q].active

\* C20: in every activation of a System, a callback registered with
\* whenStarted before or during that activation is invoked exactly once, and
\* a callback not yet registered is not invoked
C20_StartedOncePerActivation ==
    \A i \in 1..Len(lifecycle.instances) :
        \A c \in {watch, acquire, bind} :
            \A a \in 1..lifecycle.instances[i].activations :
                Cardinality(startedIn(lifecycle, i, c, a))
                    = IF registeredFor(lifecycle, i, c, a) THEN 1 ELSE 0

\* C20 for the callbacks registered from outside the System's startup()
C20_StartedOncePerActivationOutside ==
    \A i \in 1..Len(lifecycle.instances) :
        \A c \in {watch, acquire} :
            \A a \in 1..lifecycle.instances[i].activations :
                Cardinality(startedIn(lifecycle, i, c, a))
                    = IF registeredFor(lifecycle, i, c, a) THEN 1 ELSE 0

\* C21: removeSystem(ctor), when the type index holds an instance under
\* ctor, takes the instance out of the systems and the index, calls its
\* user-defined shutdown() and nothing else, leaves its active flag and its
\* queued shutdown callbacks as they were and returns it; when the index
\* holds nothing under ctor it returns null and changes nothing, also when an
\* instance of a subclass of ctor is registered
C21_RemoveSystemCallsShutdownDirectly ==
    [][ lastCall'.op = "removeSystem" =>
        LET system == lastCall'.args[1]
        IN  /\ lifecycle'.active = lifecycle.active
            /\ lifecycle'.instances = lifecycle.instances
            /\ lifecycle'.outcome = "returned"
            /\ IF system \in DOMAIN lifecycle.systemsIndexedByType
               THEN LET i == lifecycle.systemsIndexedByType[system]
                    IN  /\ lifecycle'.removed = <<i>>
                        /\ lifecycle.instances[i].ctor = system
                        /\ lifecycle'.systems = SeqRemove(lifecycle.systems, i)
                        /\ DOMAIN lifecycle'.systemsIndexedByType
                               = DOMAIN lifecycle.systemsIndexedByType \ {system}
                        /\ \A c \in DOMAIN lifecycle'.systemsIndexedByType :
                               lifecycle'.systemsIndexedByType[c]
                                   = lifecycle.systemsIndexedByType[c]
                        /\ Len(lifecycle'.log) = Len(lifecycle.log) + 1
                        /\ SubSeq(lifecycle'.log, 1, Len(lifecycle.log)) = lifecycle.log
                        /\ lastNote(lifecycle').kind = "shutdown"
                        /\ lastNote(lifecycle').system = i
                        /\ lastNote(lifecycle').active = lifecycle.instances[i].active
               ELSE /\ lifecycle'.removed = <<>>
                    /\ lifecycle'.systems = lifecycle.systems
                    /\ lifecycle'.systemsIndexedByType = lifecycle.systemsIndexedByType
                    /\ lifecycle'.log = lifecycle.log
      ]_vars

\* removeSystem has returned an active System whose startup() had queued a
\* shutdown callback: the callback is still queued, the System still active
C21_Witness ==
    /\ lastCall.op = "removeSystem"
    /\ lifecycle.removed # <<>>
    /\ lifecycle.instances[lifecycle.removed[1]].active
    /\ lifecycle.instances[lifecycle.removed[1]].shutdownCallbacks # <<>>
    /\ lifecycle.removed[1] \notin Range(lifecycle.systems)
    /\ lastNote(lifecycle).kind = "shutdown"
    /\ lastNote(lifecycle).from = "removeSystem"

\* removeSystem(System) has returned null with an instance of a subclass
\* registered
C21_SubclassWitness ==
    /\ lastCall = [op |-> "removeSystem", args |-> <<System>>]
    /\ lifecycle.removed = <<>>
    /\ \E i \in Range(lifecycle.systems) : instanceOf(lifecycle.instances[i], System)

\* the log entries a step appends
newNotes == {lifecycle'.log[p] : p \in Len(lifecycle.log) + 1 .. Len(lifecycle'.log)}

\* the calls of a World that bind the current-world slot
bindingCalls == {"addSystem", "startup", "update", "shutdown"}

\* C22: when addSystem, startup, update or shutdown returns, the
\* current-world slot holds what it held before the call, whether that is
\* nothing or another World; a System constructed during the call has the
\* World as its world, and every hook and callback the call invokes sees the
\* slot bound to the World
C22_SlotBoundDuringCallRestoredAfter ==
    [][ (lastCall'.op \in bindingCalls /\ lifecycle'.outcome = "returned") =>
        /\ lifecycle'.current = lifecycle.current
        /\ \A i \in Len(lifecycle.instances) + 1 .. Len(lifecycle'.instances) :
               lifecycle'.instances[i].world = thisWorld
        /\ \A n \in newNotes : n.current = thisWorld
      ]_vars

\* C22 without the hooks addSystem invokes: the slot is restored on return,
\* a System constructed during the call has the World as its world, and the
\* hooks World.startup, update and shutdown invoke see the slot bound to the
\* World
C22_SlotRestoredAfter ==
    [][ (lastCall'.op \in bindingCalls /\ lifecycle'.outcome = "returned") =>
        /\ lifecycle'.current = lifecycle.current
        /\ \A i \in Len(lifecycle.instances) + 1 .. Len(lifecycle'.instances) :
               lifecycle'.instances[i].world = thisWorld
        /\ lastCall'.op # "addSystem" => \A n \in newNotes : n.current = thisWorld
      ]_vars

\* startup has returned inside an operation of another World, having
\* invoked a hook
C22_RestoredWitness ==
    /\ lastCall.op = "startup"
    /\ lifecycle.current = otherWorld
    /\ lifecycle.log # <<>>
    /\ lastNote(lifecycle).current = thisWorld

\* the callback lists of the six kinds of registry, per class and per tag
registries(w) ==
    {w.onEntityCreatedCallbacks, w.onEntityRemovedCallbacks}
    \cup {w.onComponentAddedCallbacks.val[c] : c \in ComponentTypes}
    \cup {w.onComponentRemovedCallbacks.val[c] : c \in ComponentTypes}
    \cup {w.onComponentWithTagAddedCallbacks.val[x] : x \in Tags}
    \cup {w.onComponentWithTagRemovedCallbacks.val[x] : x \in Tags}

\* every invocation of the Observer in a trace, followed by the same
\* invocation of each callback registered after it, in registration order
RECURSIVE inRegistrationOrder(_, _)
inRegistrationOrder(tr, callbacks) ==
    IF tr = <<>> THEN <<>>
    ELSE [k \in 1..Len(callbacks) |-> [Head(tr) EXCEPT !.fn = callbacks[k]]]
             \o inRegistrationOrder(Tail(tr), callbacks)

mutations == {"createEntity", "removeEntity", "addComponent", "removeComponent"}

\* C23: with callbacks registered with all six registries, every mutating
\* call invokes, at each of its mutations, the callbacks registered at that
\* moment, each once, in registration order; a callback whose unsubscribe
\* closures were called is invoked by no later mutation; createEntity
\* invokes each entity-created callback once, for the entity it returns
C23_CallbacksInRegistrationOrder ==
    [][ lastCall'.op \in mutations =>
        LET callbacks == world.onEntityCreatedCallbacks
        IN  /\ registries(world) = {callbacks}
            /\ registries(world') = {callbacks}
            /\ callbacks[1] = Observer
            /\ trace' = inRegistrationOrder(
                            SelectSeq(trace', LAMBDA x : x.fn = Observer), callbacks)
            /\ lastCall'.op = "createEntity" =>
                   /\ Len(trace') = Len(callbacks)
                   /\ \A p \in DOMAIN trace' :
                          /\ trace'[p].cb = "entityCreated"
                          /\ trace'[p].entity = ret'.value
      ]_vars

\* callback 2 is registered after callback 3: a component replacement has
\* invoked the Observer, 3 and 2, in that order, at each of its mutations
C23_Witness ==
    /\ lastCall.op = "addComponent"
    /\ world.onEntityCreatedCallbacks = <<Observer, 3, 2>>
    /\ Len(trace) >= 12
    /\ \A p \in DOMAIN trace :
           trace[p].fn = 3 => (trace[p - 1].fn = Observer /\ trace[p + 1].fn = 2)

\* C24: the constructor allocates id 0; every createEntity returns an id
\* greater than every id handed out before, live or destroyed: the id is the
\* counter, the counter is above every live id and never decreases, and
\* removeEntity leaves it as it is
C24_IdsStrictlyIncrease ==
    [][ /\ 0 < world.nextEntityId
        /\ \A e \in world.entities : e < world.nextEntityId
        /\ \A e \in world'.entities : e < world'.nextEntityId
        /\ world'.nextEntityId >= world.nextEntityId
        /\ lastCall'.op = "createEntity" =>
               /\ ret'.value = world.nextEntityId
               /\ ret'.value \notin world.entities
               /\ world'.nextEntityId = ret'.value + 1
               /\ world'.entities = world.entities \cup {ret'.value}
        /\ lastCall'.op # "createEntity" => world'.nextEntityId = world.nextEntityId
      ]_vars

\* createEntity has returned 1 after entity 0 was destroyed
C24_Witness ==
    /\ lastCall.op = "createEntity"
    /\ ret.value = 1
    /\ 0 \notin world.entities
    /\ world.nextEntityId = 2

\* C30: parent pointers and child sets agree: for live entities p and c, c is
\* in p's child set exactly when c's parent pointer is p, and no child set
\* of a live entity holds the id of a removed entity
C30_ParentsAndChildrenAgree ==
    \A p \in world.entities :
        /\ childrenOf(current, p) \subseteq world.entities
        /\ \A c \in world.entities :
               c \in childrenOf(current, p) <=> parentOf(current, c) = <<p>>

\* the positions of the calls of the user-defined startup() and shutdown()
\* of System i, in the order they were made
hookCalls(st, i) ==
    {p \in DOMAIN st.log : /\ st.log[p].system = i
                           /\ st.log[p].fn = hook
                           /\ st.log[p].kind \in {"startup", "shutdown"}}

\* C28: for every System instance the calls of the user-defined startup()
\* and shutdown() alternate, beginning with startup(): every shutdown() call
\* has a startup() call of the instance as the latest such call before it,
\* and every startup() call has none or a shutdown() call before it
C28_StartupAndShutdownAlternate ==
    \A i \in DOMAIN lifecycle.instances :
        \A p \in hookCalls(lifecycle, i) :
            LET before == {q \in hookCalls(lifecycle, i) : q < p}
                latest == CHOOSE q \in before : \A r \in before : r <= q
            IN  IF before = {} THEN lifecycle.log[p].kind = "startup"
                ELSE lifecycle.log[p].kind # lifecycle.log[latest].kind

\* C29: between World calls, every System registered in the World has an
\* active flag equal to the active flag of the World
C29_RegisteredSystemsFollowWorld ==
    lifecycle.outcome = "returned" =>
        \A i \in Range(lifecycle.systems) :
            lifecycle.instances[i].active = lifecycle.active

\* two Systems are registered in an active World, the second one added after
\* the World had been started, shut down and started again
C29_Witness ==
    /\ lifecycle.outcome = "returned"
    /\ lifecycle.active
    /\ lastCall.op = "addSystem"
    /\ Len(lifecycle.systems) = 2
    /\ lifecycle.instances[lifecycle.systems[1]].activations = 2
    /\ \A i \in Range(lifecycle.systems) : lifecycle.instances[i].active

\* the Systems registered by the call just made
registeredNow == Range(lifecycle'.systems) \ Range(lifecycle.systems)

\* C27: a World.startup() that starts a System whose startup() calls
\* addSystem(Other) returns without an assertion failure, has run the
\* startup transition of the System it registered exactly once, and leaves
\* every registered System active
C27_AddSystemInsideStartup ==
    [][ (/\ lastCall'.op = "startup"
         /\ ~lifecycle.active
         /\ \E i \in Range(lifecycle.systems) :
                lifecycle.instances[i].ctor = SpawnerSystem) =>
        /\ lifecycle'.outcome = "returned"
        /\ registeredNow # {}
        /\ \A i \in registeredNow :
               /\ lifecycle'.instances[i].activations = 1
               /\ Cardinality(notes(lifecycle', "startup", i, hook)) = 1
        /\ \A i \in Range(lifecycle'.systems) : lifecycle'.instances[i].active
      ]_vars

\* C26: alloc() returns an object of the pool that was not active before the
\* call and is active after it, the pool grows when its reserve was empty,
\* and after the call size is sizeOfActive plus sizeOfReserve
C26_AllocReturnsInactiveObject ==
    [][ lastCall'.op = "alloc" =>
        /\ pool'.returned # undefined
        /\ pool'.returned.ref \in 1..pool'.created
        /\ pool'.returned \notin Range(pool.active)
        /\ pool'.returned \in Range(pool'.active)
        /\ pool'.returned \notin Range(pool'.inactive)
        /\ sizeOfReserve(pool) = 0 => size(pool') > size(pool)
        /\ size(pool') = sizeOfActive(pool') + sizeOfReserve(pool')
      ]_vars

\* the same for a pool constructed with an initialSize of at least 1
C26_AllocReturnsInactiveObjectOfSizedPool ==
    [][ (lastCall'.op = "alloc" /\ pool.initialSize >= 1) =>
        /\ pool'.returned # undefined
        /\ pool'.returned.ref \in 1..pool'.created
        /\ pool'.returned \notin Range(pool.active)
        /\ pool'.returned \in Range(pool'.active)
        /\ pool'.returned \notin Range(pool'.inactive)
        /\ sizeOfReserve(pool) = 0 => size(pool') > size(pool)
        /\ size(pool') = sizeOfActive(pool') + sizeOfReserve(pool')
      ]_vars

\* the call just made takes the component of class T away from entity e
Removes(e, T) ==
    /\ outcome' = "returned"
    /\ ret'.error = "none"
    /\ \/ lastCall'.op = "removeComponent" /\ lastCall'.args = <<e, T>>
       \/ lastCall'.op = "removeEntity" /\ lastCall'.args = <<e>>
       \/ /\ lastCall'.op = "addComponent"
          /\ lastCall'.args[1] = e
          /\ constructorOf(stored(lastCall'.args[2])) = T

\* C25: while the ActorSystem is active, a removeComponent, a replacing
\* addComponent or a removeEntity that takes a component with the lifecycle
\* tag away from an entity invokes shutdown(entity, world) on that component
\* instance exactly once
C25_RemovedActorIsShutDownOnce ==
    [][ \A e \in world.entities, T \in UserTypes :
            (/\ actorSystemActive(current)
             /\ participatesInLifecycleTag \in Range(tagsOf(T))
             /\ hasComponent(current, e, T)
             /\ Removes(e, T)) =>
            Cardinality(shutdownCalls(trace', e, getComponent(current, e, T))) = 1
      ]_vars

\* C31: every removeEntity call on a live entity returns: its recursion over
\* child entities ends before the call stack is exhausted
C31_RemoveEntityTerminates ==
    [][ (lastCall'.op = "removeEntity" /\ entityExists(current, lastCall'.args[1])) =>
        outcome' = "returned"
      ]_vars

\* the calls of entity-removed callback f for entity e in a trace
removedCalls(tr, e, f) ==
    {i \in DOMAIN tr : tr[i].cb = "entityRemoved" /\ tr[i].entity = e /\ tr[i].fn = f}

\* C32: for every entity a removeEntity call destroys, itself or a
\* descendant, each registered entity-removed callback is invoked exactly
\* once for that entity, while the entity is still live
C32_EntityRemovedFiresOncePerEntity ==
    [][ lastCall'.op = "removeEntity" =>
        \A e \in world.entities \ world'.entities :
            \A f \in Range(world.onEntityRemovedCallbacks) :
                /\ Cardinality(removedCalls(trace', e, f)) = 1
                /\ \A i \in removedCalls(trace', e, f) : e \in trace'[i].entities
      ]_vars

\* C33: between World calls each tag store mirrors the component stores:
\* for every tag t, class T declaring t and entity e, the store of t holds a
\* component of class T for e exactly when the component store of T does,
\* and it is the same instance
C33_TagStoresMirrorComponentStores ==
    \A T \in UserTypes, e \in EntityIds(MaxEntities) :
        \A k \in DOMAIN tagsOf(T) :
            /\ tagSetGet(current, tagsOf(T)[k], e, T) # undefined
                   <=> hasComponent(current, e, T)
            /\ hasComponent(current, e, T) =>
                   tagSetGet(current, tagsOf(T)[k], e, T) = getComponent(current, e, T)

\* C34: every tuple a generator of componentIterator(T1, ..., Tn) yields
\* has n + 1 elements: the entity, then its component of each requested
\* class, and so nothing an earlier call left in the shared tuple
C34_TuplesHoldEntityAndItsComponents ==
    [][ (lastCall'.op = "next" /\ ~ret'.value.done) =>
        LET q == lastCall'.args[2]
            y == ret'.value.value
        IN  /\ Len(y) = Len(q) + 1
            /\ \A j \in DOMAIN q :
                   /\ hasComponent(after, y[1], q[j])
                   /\ y[j + 1] = getComponent(after, y[1], q[j])
      ]_vars

\* get returns for every id added and not removed since the value given to
\* the add that inserted it, and iteration yields the pair of each such id
\* once and nothing else
keepsValues(s) ==
    /\ \A id \in DOMAIN sets.present : SparseSetGet(s, id) = sets.present[id]
    /\ Range(SparseSetIter(s)) = {<<id, sets.present[id]>> : id \in DOMAIN sets.present}
    /\ Len(SparseSetIter(s)) = Cardinality(DOMAIN sets.present)

\* C35: after every sequence of add and remove calls on a SparseSet, of
\* either implementation, get(e) is the value e was added with for every
\* present id e, and iteration yields exactly the present (id, value) pairs,
\* each once
C35_GetAndIterationKeepValues ==
    keepsValues(sets.swapPop) /\ keepsValues(sets.deletePop)

\* C35 for the swap-and-pop implementation alone
C35_SwapPopKeepsValues == keepsValues(sets.swapPop)

====
